---- MODULE Spec2Model ----
(***************************************************************************)
(* The Alonzo-era ledger codec of pallas-alonzo (src/model.rs).            *)
(*                                                                         *)
(* A CBOR byte stream is modelled item header by item header: one token    *)
(* per data-item head, carrying the major type, the width of the header    *)
(* argument as it is on the wire (0 = packed in the initial byte, else 1,  *)
(* 2, 4 or 8 bytes), the 64-bit argument itself and, for strings, the      *)
(* payload.  64-bit arguments are four big-endian 16-bit limbs, so that    *)
(* the whole u64 range is exact.                                           *)
(*                                                                         *)
(* Decoders are operators from (tokens, position) to a result record;      *)
(* encoders are operators from an in-memory value to tokens.  The state    *)
(* machine feeds a wire input to one codec, encodes what came out, and     *)
(* may feed the encoder's output back to the decoder once.                 *)
(***************************************************************************)
EXTENDS Integers, Sequences, FiniteSets, TLC

VARIABLES typ, wire, given, pc, val, pos, err, out, orig, round

vars == <<typ, wire, given, pc, val, pos, err, out, orig, round>>

(***************************************************************************)
(* Tokens and 64-bit arguments                                             *)
(***************************************************************************)
Tok(m, w, a, p) == [m |-> m, w |-> w, a |-> a, p |-> p]

\* a number below 2^16 as a 64-bit argument
L(n) == <<0, 0, 0, n>>

\* small arguments back to a number (lengths, counts, keys)
ToNat(a) == a[3] * 65536 + a[4]

FitsU8(a) == a[1] = 0 /\ a[2] = 0 /\ a[3] = 0 /\ a[4] < 256
FitsU16(a) == a[1] = 0 /\ a[2] = 0 /\ a[3] = 0
FitsU32(a) == a[1] = 0 /\ a[2] = 0
FitsI64(a) == a[1] < 32768

\* the header width the encoder picks for an argument: the shortest one
MinWidth(a) ==
    IF FitsU8(a) /\ a[4] < 24 THEN 0
    ELSE IF FitsU8(a) THEN 1
    ELSE IF FitsU16(a) THEN 2
    ELSE IF FitsU32(a) THEN 4
    ELSE 8

\* a signed 64-bit integer: n >= 0 as (FALSE, n), n < 0 as (TRUE, -1 - n)
I64(neg, n) == [neg |-> neg, n |-> n]

\* two's-complement reinterpretation of a u64 as i64 (Rust `as i64`)
AsI64(a) ==
    IF FitsI64(a) THEN I64(FALSE, a)
    ELSE I64(TRUE, <<65535 - a[1], 65535 - a[2], 65535 - a[3], 65535 - a[4]>>)

(***************************************************************************)
(* Decoder results                                                         *)
(***************************************************************************)
Ok(v, p) == [ok |-> TRUE, v |-> v, pos |-> p, err |-> ""]
Err(msg) == [ok |-> FALSE, v |-> <<>>, pos |-> 0, err |-> msg]

EndOfInput == "end of input"
TypeMismatch == "unexpected type"
Overflow == "overflow"

(***************************************************************************)
(* minicbor::Decoder, the primitive layer the codec consumes               *)
(***************************************************************************)
\* Decoder::datatype: the type of the next item, judged by its initial byte
d_datatype(t, p) ==
    IF p > Len(t) THEN "EOF"
    ELSE LET k == t[p] IN
         CASE k.m = "uint" -> (CASE k.w \in {0, 1} -> "U8" [] k.w = 2 -> "U16"
                                 [] k.w = 4 -> "U32" [] OTHER -> "U64")
           [] k.m = "nint" -> (CASE k.w \in {0, 1} -> "I8" [] k.w = 2 -> "I16"
                                 [] k.w = 4 -> "I32" [] OTHER -> "I64")
           [] k.m = "bytes" -> "Bytes"
           [] k.m = "text" -> "String"
           [] k.m = "array" -> "Array"
           [] k.m = "arrayindef" -> "ArrayIndef"
           [] k.m = "map" -> "Map"
           [] k.m = "mapindef" -> "MapIndef"
           [] k.m = "tag" -> "Tag"
           [] k.m = "break" -> "Break"
           [] k.m = "simple" -> (CASE k.a = L(22) -> "Null"
                                   [] k.a = L(23) -> "Undefined"
                                   [] OTHER -> "Bool")
           [] OTHER -> "Unknown"

IntTypes == {"U8", "U16", "U32", "U64", "I8", "I16", "I32", "I64"}

\* Decoder::u64
d_u64(t, p) ==
    IF p > Len(t) THEN Err(EndOfInput)
    ELSE IF t[p].m = "uint" THEN Ok(t[p].a, p + 1)
    ELSE Err(TypeMismatch)

\* Decoder::u32: any unsigned header whose value fits
d_u32(t, p) ==
    LET r == d_u64(t, p) IN
    IF ~r.ok THEN r ELSE IF FitsU32(r.v) THEN r ELSE Err(Overflow)

\* Decoder::u16
d_u16(t, p) ==
    LET r == d_u64(t, p) IN
    IF ~r.ok THEN r ELSE IF FitsU16(r.v) THEN r ELSE Err(Overflow)

\* Decoder::u8
d_u8(t, p) ==
    LET r == d_u64(t, p) IN
    IF ~r.ok THEN r ELSE IF FitsU8(r.v) THEN r ELSE Err(Overflow)

\* Decoder::i64: unsigned or negative header whose value fits 63 bits
d_i64(t, p) ==
    IF p > Len(t) THEN Err(EndOfInput)
    ELSE IF t[p].m \notin {"uint", "nint"} THEN Err(TypeMismatch)
    ELSE IF ~FitsI64(t[p].a) THEN Err(Overflow)
    ELSE Ok(I64(t[p].m = "nint", t[p].a), p + 1)

\* Decoder::bytes (definite byte strings only)
d_bytes(t, p) ==
    IF p > Len(t) THEN Err(EndOfInput)
    ELSE IF t[p].m = "bytes" THEN Ok(t[p].p, p + 1)
    ELSE Err(TypeMismatch)

\* Decoder::str
d_str(t, p) ==
    IF p > Len(t) THEN Err(EndOfInput)
    ELSE IF t[p].m = "text" THEN Ok(t[p].p, p + 1)
    ELSE Err(TypeMismatch)

\* Decoder::array: Some(len) as <<len>>, None (indefinite) as <<>>
d_array(t, p) ==
    IF p > Len(t) THEN Err(EndOfInput)
    ELSE IF t[p].m = "array" THEN Ok(<<ToNat(t[p].a)>>, p + 1)
    ELSE IF t[p].m = "arrayindef" THEN Ok(<<>>, p + 1)
    ELSE Err(TypeMismatch)

\* Decoder::map: Some(len) as <<len>>, None (indefinite) as <<>>
d_map(t, p) ==
    IF p > Len(t) THEN Err(EndOfInput)
    ELSE IF t[p].m = "map" THEN Ok(<<ToNat(t[p].a)>>, p + 1)
    ELSE IF t[p].m = "mapindef" THEN Ok(<<>>, p + 1)
    ELSE Err(TypeMismatch)

\* Decoder::tag
d_tag(t, p) ==
    IF p > Len(t) THEN Err(EndOfInput)
    ELSE IF t[p].m = "tag" THEN Ok(t[p].a, p + 1)
    ELSE Err(TypeMismatch)

RECURSIVE SkipItem(_, _), SkipN(_, _, _), SkipUntilBreak(_, _)

\* the position after the complete item at p; 0 when the input is malformed
SkipItem(t, p) ==
    IF p = 0 \/ p > Len(t) THEN 0
    ELSE LET k == t[p] IN
         CASE k.m \in {"uint", "nint", "bytes", "text", "simple"} -> p + 1
           [] k.m = "tag" -> SkipItem(t, p + 1)
           [] k.m = "array" -> SkipN(t, p + 1, ToNat(k.a))
           [] k.m = "map" -> SkipN(t, p + 1, 2 * ToNat(k.a))
           [] k.m \in {"arrayindef", "mapindef"} -> SkipUntilBreak(t, p + 1)
           [] OTHER -> 0

SkipN(t, p, n) ==
    IF n = 0 \/ p = 0 THEN p ELSE SkipN(t, SkipItem(t, p), n - 1)

SkipUntilBreak(t, p) ==
    IF p = 0 \/ p > Len(t) THEN 0
    ELSE IF t[p].m = "break" THEN p + 1
    ELSE SkipUntilBreak(t, SkipItem(t, p))

\* Decoder::skip
d_skip(t, p) ==
    LET q == SkipItem(t, p) IN
    IF q = 0 THEN Err(EndOfInput) ELSE Ok(<<>>, q)

(***************************************************************************)
(* minicbor::Encoder                                                       *)
(***************************************************************************)
e_u64(a) == <<Tok("uint", MinWidth(a), a, <<>>)>>
e_i64(x) == <<Tok(IF x.neg THEN "nint" ELSE "uint", MinWidth(x.n), x.n, <<>>)>>
e_int(n) == e_u64(L(n))
e_bytes(b) == <<Tok("bytes", MinWidth(L(Len(b))), L(Len(b)), b)>>
e_str(s) == <<Tok("text", MinWidth(L(Len(s))), L(Len(s)), s)>>
e_array(n) == <<Tok("array", MinWidth(L(n)), L(n), <<>>)>>
e_map(n) == <<Tok("map", MinWidth(L(n)), L(n), <<>>)>>
e_tag(a) == <<Tok("tag", MinWidth(a), a, <<>>)>>
e_null == <<Tok("simple", 0, L(22), <<>>)>>
e_begin_array == <<Tok("arrayindef", 0, L(0), <<>>)>>
e_end == <<Tok("break", 0, L(0), <<>>)>>

\* `todo!()`: the encoder never returns; the marker poisons the output
PanicTok == Tok("panic", 0, L(0), <<>>)
HasPanic(ts) == \E i \in 1..Len(ts) : ts[i].m = "panic"

(***************************************************************************)
(* Type-directed decode and encode.  A type is a tuple whose head names    *)
(* it: <<"u64">>, <<"Vec", <<"Certificate">>>>, ...                        *)
(*                                                                         *)
(* In memory: u64/u32/u16 are arguments (limbs), i64 is I64(neg, n), byte  *)
(* and text strings are their payload, Option is <<>> or <<x>>, Vec and    *)
(* structs are tuples, enum variants are [k |-> variant, f |-> fields].    *)
(***************************************************************************)
T(name) == <<name>>
Opt(ty) == <<"Option", ty>>
Vec(ty) == <<"Vec", ty>>
KVP(kt, vt) == <<"KeyValuePairs", kt, vt>>
BTM(kt, vt) == <<"BTreeMap", kt, vt>>

\* Multiasset<A> = KeyValuePairs<PolicyId, KeyValuePairs<AssetName, A>>
Multiasset(a) == KVP(T("ByteVec"), KVP(T("ByteVec"), a))

\* Metadata = KeyValuePairs<Metadatum, Metadatum>
Metadata == KVP(T("Metadatum"), T("Metadatum"))

Variant(k, f) == [k |-> k, f |-> f]
Wrap(k, r) == IF r.ok THEN Ok(Variant(k, r.v), r.pos) ELSE r
One(r) == IF r.ok THEN Ok(<<r.v>>, r.pos) ELSE r

RECURSIVE Decode(_, _, _), Encode(_, _)
RECURSIVE Fields(_, _, _), EncFields(_, _)
RECURSIVE VecItems(_, _, _, _, _), EncItems(_, _)
RECURSIVE PairItems(_, _, _, _, _, _), EncPairs(_, _, _)
RECURSIVE DeriveArrayFields(_, _, _, _, _, _), DeriveMapFields(_, _, _, _, _)
RECURSIVE DeriveMapEncFields(_, _, _)
RECURSIVE Less(_, _, _), LexLess(_, _), LessFields(_, _, _), LessVec(_, _, _)
RECURSIVE BTreeInsert(_, _, _), BTreeFromPairs(_, _, _)

\* the fields of a run of consecutive d.decode()? calls, left to right
Fields(tys, t, p) ==
    IF tys = <<>> THEN Ok(<<>>, p)
    ELSE LET r == Decode(Head(tys), t, p) IN
         IF ~r.ok THEN r
         ELSE LET s == Fields(Tail(tys), t, r.pos) IN
              IF ~s.ok THEN s ELSE Ok(<<r.v>> \o s.v, s.pos)

\* a run of consecutive e.encode(..)? calls
EncFields(tys, vs) ==
    IF tys = <<>> THEN <<>>
    ELSE Encode(Head(tys), Head(vs)) \o EncFields(Tail(tys), Tail(vs))

(***************************************************************************)
(* minicbor's impls for Option, Vec and BTreeMap                           *)
(***************************************************************************)
\* Option<T>::decode: null is None, anything else is T
Option_decode(ty, t, p) ==
    IF p > Len(t) THEN Err(EndOfInput)
    ELSE IF d_datatype(t, p) = "Null" THEN Ok(<<>>, p + 1)
    ELSE LET r == Decode(ty, t, p) IN
         IF r.ok THEN Ok(<<r.v>>, r.pos) ELSE r

Option_encode(ty, v) ==
    IF v = <<>> THEN e_null ELSE Encode(ty, v[1])

\* the items of an array: n of them, or up to the break when n = -1
VecItems(ty, t, p, n, acc) ==
    IF n = 0 THEN Ok(acc, p)
    ELSE IF p > Len(t) THEN Err(EndOfInput)
    ELSE IF n < 0 /\ t[p].m = "break" THEN Ok(acc, p + 1)
    ELSE LET r == Decode(ty, t, p) IN
         IF ~r.ok THEN r
         ELSE VecItems(ty, t, r.pos, IF n < 0 THEN n ELSE n - 1, acc \o <<r.v>>)

\* Vec<T>::decode: either array framing, every item kept
Vec_decode(ty, t, p) ==
    LET a == d_array(t, p) IN
    IF ~a.ok THEN a
    ELSE VecItems(ty, t, a.pos, IF a.v = <<>> THEN -1 ELSE a.v[1], <<>>)

EncItems(ty, vs) ==
    IF vs = <<>> THEN <<>> ELSE Encode(ty, Head(vs)) \o EncItems(ty, Tail(vs))

\* Vec<T>::encode: always a definite array
Vec_encode(ty, vs) == e_array(Len(vs)) \o EncItems(ty, vs)

\* the (key, value) pairs of a map, in wire order
PairItems(kt, vt, t, p, n, acc) ==
    IF n = 0 THEN Ok(acc, p)
    ELSE IF p > Len(t) THEN Err(EndOfInput)
    ELSE IF n < 0 /\ t[p].m = "break" THEN Ok(acc, p + 1)
    ELSE LET r == Fields(<<kt, vt>>, t, p) IN
         IF ~r.ok THEN r
         ELSE PairItems(kt, vt, t, r.pos, IF n < 0 THEN n ELSE n - 1, acc \o <<r.v>>)

Map_pairs(kt, vt, t, p) ==
    LET m == d_map(t, p) IN
    IF ~m.ok THEN m
    ELSE PairItems(kt, vt, t, m.pos, IF m.v = <<>> THEN -1 ELSE m.v[1], <<>>)

EncPairs(kt, vt, ps) ==
    IF ps = <<>> THEN <<>>
    ELSE EncFields(<<kt, vt>>, Head(ps)) \o EncPairs(kt, vt, Tail(ps))

\* lexicographic order of two tuples of numbers (Vec<u8>, String; limbs of
\* equal length compare as the numbers they are)
LexLess(a, b) ==
    IF b = <<>> THEN FALSE
    ELSE IF a = <<>> THEN TRUE
    ELSE IF Head(a) # Head(b) THEN Head(a) < Head(b)
    ELSE LexLess(Tail(a), Tail(b))

\* i64 order: negatives (as -1 - n) below non-negatives
I64Less(a, b) ==
    IF a.neg # b.neg THEN a.neg
    ELSE IF a.neg THEN LexLess(b.n, a.n)
    ELSE LexLess(a.n, b.n)

StakeCredentialRank(v) == IF v.k = "AddrKeyhash" THEN 0 ELSE 1

PlutusDataRank(v) ==
    CASE v.k = "Constr" -> 0 [] v.k = "Map" -> 1 [] v.k = "BigInt" -> 2
      [] v.k = "BoundedBytes" -> 3 [] v.k = "Array" -> 4 [] v.k = "ArrayIndef" -> 5

BigIntRank(v) ==
    CASE v.k = "Int" -> 0 [] v.k = "BigUInt" -> 1 [] v.k = "BigNInt" -> 2

\* the type of the single field of each PlutusData and BigInt variant
PlutusDataField(k) ==
    CASE k = "Constr" -> <<"Constr", T("PlutusData")>>
      [] k = "Map" -> BTM(T("PlutusData"), T("PlutusData"))
      [] k = "BigInt" -> T("BigInt")
      [] k = "BoundedBytes" -> T("ByteVec")
      [] k = "Array" -> Vec(T("PlutusData"))
      [] k = "ArrayIndef" -> <<"IndefVec", T("PlutusData")>>

BigIntField(k) == IF k = "Int" THEN T("i64") ELSE T("ByteVec")

\* derive(Ord): lexicographic over the fields
LessFields(tys, a, b) ==
    IF tys = <<>> THEN FALSE
    ELSE IF Head(a) # Head(b) THEN Less(Head(tys), Head(a), Head(b))
    ELSE LessFields(Tail(tys), Tail(a), Tail(b))

\* Ord of Vec<T> and of BTreeMap's entries: lexicographic, a prefix is less
LessVec(ty, a, b) ==
    IF b = <<>> THEN FALSE
    ELSE IF a = <<>> THEN TRUE
    ELSE IF Head(a) # Head(b) THEN Less(ty, Head(a), Head(b))
    ELSE LessVec(ty, Tail(a), Tail(b))

\* Ord of the types that are BTreeMap keys, or occur inside one
Less(ty, a, b) ==
    LET c == ty[1] IN
    CASE c \in {"u64", "u32", "u16", "ByteVec", "String"} -> LexLess(a, b)
      [] c = "i64" -> I64Less(a, b)
      [] c = "Option" ->
            IF a = <<>> THEN b # <<>>
            ELSE IF b = <<>> THEN FALSE
            ELSE Less(ty[2], a[1], b[1])
      [] c \in {"Vec", "IndefVec"} -> LessVec(ty[2], a, b)
      [] c = "BTreeMap" -> LessVec(<<"Pair", ty[2], ty[3]>>, a, b)
      [] c = "Pair" -> LessFields(<<ty[2], ty[3]>>, a, b)
      [] c = "StakeCredential" ->
            IF a.k # b.k THEN StakeCredentialRank(a) < StakeCredentialRank(b)
            ELSE LexLess(a.f[1], b.f[1])
      [] c = "BigInt" ->
            IF a.k # b.k THEN BigIntRank(a) < BigIntRank(b)
            ELSE Less(BigIntField(a.k), a.f[1], b.f[1])
      [] c = "Constr" ->
            LessFields(<<T("u64"), Opt(T("u32")), <<"IndefVec", ty[2]>>>>, a, b)
      [] c = "PlutusData" ->
            IF a.k # b.k THEN PlutusDataRank(a) < PlutusDataRank(b)
            ELSE Less(PlutusDataField(a.k), a.f[1], b.f[1])

\* BTreeMap::insert into the sorted pairs m: an equal key keeps its place
\* and takes the new value
BTreeInsert(kt, m, kv) ==
    IF m = <<>> THEN <<kv>>
    ELSE IF Less(kt, kv[1], Head(m)[1]) THEN <<kv>> \o m
    ELSE IF Less(kt, Head(m)[1], kv[1]) THEN <<Head(m)>> \o BTreeInsert(kt, Tail(m), kv)
    ELSE <<<<Head(m)[1], kv[2]>>>> \o Tail(m)

BTreeFromPairs(kt, m, ps) ==
    IF ps = <<>> THEN m
    ELSE BTreeFromPairs(kt, BTreeInsert(kt, m, Head(ps)), Tail(ps))

\* BTreeMap<K, V>::decode: every pair of the map inserted in wire order
BTreeMap_decode(kt, vt, t, p) ==
    LET r == Map_pairs(kt, vt, t, p) IN
    IF ~r.ok THEN r ELSE Ok(BTreeFromPairs(kt, <<>>, r.v), r.pos)

\* BTreeMap<K, V>::encode: the entries in key order
BTreeMap_encode(kt, vt, m) == e_map(Len(m)) \o EncPairs(kt, vt, m)

\* utils::KeyValuePairs<K, V>: the pairs as they are on the wire
KeyValuePairs_decode(kt, vt, t, p) == Map_pairs(kt, vt, t, p)

KeyValuePairs_encode(kt, vt, ps) == e_map(Len(ps)) \o EncPairs(kt, vt, ps)

(***************************************************************************)
(* minicbor_derive: #[derive(Encode, Decode)]                              *)
(***************************************************************************)
IsOption(ty) == ty[1] = "Option"

\* fields never read: None for an Option, a missing-value error otherwise
DeriveFill(fields, acc) ==
    IF \E i \in (Len(acc) + 1)..Len(fields) : ~IsOption(fields[i])
    THEN <<>>
    ELSE <<acc \o [i \in 1..(Len(fields) - Len(acc)) |-> <<>>]>>

\* array encoding, decode: item i is field i, surplus items are skipped
DeriveArrayFields(fields, t, p, i, n, acc) ==
    IF n = 0 \/ (n < 0 /\ p <= Len(t) /\ t[p].m = "break")
    THEN LET full == DeriveFill(fields, acc) IN
         IF full = <<>> THEN Err("missing value")
         ELSE Ok(full[1], IF n < 0 THEN p + 1 ELSE p)
    ELSE IF p > Len(t) THEN Err(EndOfInput)
    ELSE LET r == IF i <= Len(fields) THEN Decode(fields[i], t, p) ELSE d_skip(t, p) IN
         IF ~r.ok THEN r
         ELSE DeriveArrayFields(fields, t, r.pos, i + 1, IF n < 0 THEN n ELSE n - 1,
                                IF i <= Len(fields) THEN acc \o <<r.v>> ELSE acc)

DeriveArray_decode(fields, t, p) ==
    LET a == d_array(t, p) IN
    IF ~a.ok THEN a
    ELSE DeriveArrayFields(fields, t, a.pos, 1, IF a.v = <<>> THEN -1 ELSE a.v[1], <<>>)

\* array encoding, encode: up to the last field that is not None
DeriveArrayLast(fields, vs) ==
    LET present == {i \in 1..Len(fields) : ~IsOption(fields[i]) \/ vs[i] # <<>>} IN
    IF present = {} THEN 0 ELSE CHOOSE i \in present : \A j \in present : j <= i

DeriveArray_encode(fields, vs) ==
    LET n == DeriveArrayLast(fields, vs) IN
    e_array(n) \o EncFields(SubSeq(fields, 1, n), SubSeq(vs, 1, n))

\* map encoding, decode: key i is field i (all fields here are Options),
\* unknown keys are skipped with their value
DeriveMapFields(fields, t, p, n, acc) ==
    IF n = 0 THEN Ok(acc, p)
    ELSE IF p > Len(t) THEN Err(EndOfInput)
    ELSE IF n < 0 /\ t[p].m = "break" THEN Ok(acc, p + 1)
    ELSE LET k == d_u32(t, p) IN
         IF ~k.ok THEN k
         ELSE LET i == ToNat(k.v) + 1
                  known == FitsU16(k.v) /\ i <= Len(fields)
                  r == IF known THEN Decode(fields[i], t, k.pos) ELSE d_skip(t, k.pos)
              IN IF ~r.ok THEN r
                 ELSE DeriveMapFields(fields, t, r.pos, IF n < 0 THEN n ELSE n - 1,
                                      IF known THEN [acc EXCEPT ![i] = r.v] ELSE acc)

DeriveMap_decode(fields, t, p) ==
    LET m == d_map(t, p) IN
    IF ~m.ok THEN m
    ELSE DeriveMapFields(fields, t, m.pos, IF m.v = <<>> THEN -1 ELSE m.v[1],
                         [i \in 1..Len(fields) |-> <<>>])

\* map encoding, encode: the fields that are Some, keyed by index
DeriveMapEncFields(fields, vs, i) ==
    IF i > Len(fields) THEN <<>>
    ELSE (IF vs[i] = <<>> THEN <<>> ELSE e_int(i - 1) \o Encode(fields[i], vs[i]))
         \o DeriveMapEncFields(fields, vs, i + 1)

DeriveMap_encode(fields, vs) ==
    e_map(Cardinality({i \in 1..Len(fields) : vs[i] # <<>>}))
    \o DeriveMapEncFields(fields, vs, 1)

\* #[cbor(index_only)] enums: a bare index
IndexOnly_decode(names, t, p) ==
    LET r == d_u32(t, p) IN
    IF ~r.ok THEN r
    ELSE IF FitsU16(r.v) /\ ToNat(r.v) < Len(names)
         THEN Ok(Variant(names[ToNat(r.v) + 1], <<>>), r.pos)
         ELSE Err("unknown variant")

IndexOnly_encode(names, v) ==
    e_int((CHOOSE i \in 1..Len(names) : names[i] = v.k) - 1)

(***************************************************************************)
(* The codecs of src/model.rs                                              *)
(***************************************************************************)
\* a skip that consumes the head of the item and not what it contains
SkipCbor_decode_head(t, p) ==
    IF d_datatype(t, p) = "EOF" THEN Err(EndOfInput)
    ELSE Ok(Variant("SkipCbor", <<>>), p + 1)

\* SkipCbor<N>::decode: probe the type for the log, then skip one item
SkipCbor_decode(t, p) ==
    IF d_datatype(t, p) = "EOF" THEN Err(EndOfInput)
    ELSE LET r == d_skip(t, p) IN
         IF ~r.ok THEN r ELSE Ok(Variant("SkipCbor", <<>>), r.pos)

\* an encoder that writes a null in the place of the skipped value
SkipCbor_encode_null(v) == e_null

\* SkipCbor<N>::encode: todo!()
SkipCbor_encode(v) == <<PanicTok>>

\* the fields, by index, of the structs that derive their codec
StructFields(name) ==
    CASE name = "VrfCert" -> <<T("ByteVec"), T("ByteVec")>>
      [] name = "HeaderBody" ->
            <<T("u64"), T("u64"), T("ByteVec"), T("ByteVec"), T("ByteVec"),
              T("VrfCert"), T("VrfCert"), T("u64"), T("ByteVec"), T("ByteVec"),
              T("u64"), T("u64"), T("ByteVec"), T("u64"), T("u64")>>
      [] name = "Header" -> <<T("HeaderBody"), T("ByteVec")>>
      [] name = "TransactionInput" -> <<T("ByteVec"), T("u64")>>
      [] name = "TransactionOutput" -> <<T("ByteVec"), T("Value"), Opt(T("ByteVec"))>>
      [] name = "MoveInstantaneousReward" ->
            <<T("InstantaneousRewardSource"), T("InstantaneousRewardTarget")>>
      [] name = "PoolMetadata" -> <<T("String"), T("ByteVec")>>
      [] name = "VKeyWitness" -> <<T("ByteVec"), T("ByteVec")>>
      [] name = "ExUnits" -> <<T("u32"), T("u32")>>
      [] name = "Redeemer" -> <<T("RedeemerTag"), T("u32"), T("PlutusData"), T("ExUnits")>>
      [] name = "BootstrapWitness" ->
            <<T("ByteVec"), T("ByteVec"), T("ByteVec"), T("ByteVec")>>
      [] name = "TransactionWitnessSet" ->
            <<Opt(Vec(T("VKeyWitness"))), Opt(Vec(T("NativeScript"))),
              Opt(Vec(T("BootstrapWitness"))), Opt(Vec(T("ByteVec"))),
              Opt(Vec(T("PlutusData"))), Opt(Vec(T("Redeemer")))>>
      [] name = "AlonzoAuxiliaryData" ->
            <<Opt(Metadata), Opt(Vec(T("NativeScript"))), Opt(T("ByteVec"))>>
      [] name = "Block" ->
            <<T("Header"), Vec(T("TransactionBody")), Vec(T("TransactionWitnessSet")),
              BTM(T("u32"), T("AuxiliaryData")), Vec(T("u32"))>>
      [] name = "BlockWrapper" -> <<T("u16"), T("Block")>>

ArrayStructs ==
    {"VrfCert", "HeaderBody", "Header", "TransactionInput", "TransactionOutput",
     "MoveInstantaneousReward", "PoolMetadata", "VKeyWitness", "ExUnits", "Redeemer",
     "BootstrapWitness", "Block", "BlockWrapper"}

MapStructs == {"TransactionWitnessSet", "AlonzoAuxiliaryData"}

NetworkIdNames == <<"One", "Two">>
RedeemerTagNames == <<"Spend", "Mint", "Cert", "Reward">>

\* Value::decode
Value_decode(t, p) ==
    LET ty == d_datatype(t, p) IN
    CASE ty = "EOF" -> Err(EndOfInput)
      [] ty = "U32" -> Wrap("Coin", Fields(<<T("u64")>>, t, p))
      [] ty = "U64" -> Wrap("Coin", Fields(<<T("u64")>>, t, p))
      [] ty = "Array" ->
            Wrap("Multiasset", Fields(<<T("u64"), Multiasset(T("u64"))>>, t, p + 1))
      [] OTHER -> Err("unknown cbor data type for Alonzo Value enum")

\* Value::encode
Value_encode(v) ==
    CASE v.k = "Coin" -> Encode(T("u64"), v.f[1])
      [] v.k = "Multiasset" ->
            e_array(2) \o EncFields(<<T("u64"), Multiasset(T("u64"))>>, v.f)

\* InstantaneousRewardSource::decode
InstantaneousRewardSource_decode(t, p) ==
    LET r == d_u32(t, p) IN
    IF ~r.ok THEN r
    ELSE CASE r.v = L(0) -> Ok(Variant("Reserves", <<>>), r.pos)
           [] r.v = L(1) -> Ok(Variant("Treasury", <<>>), r.pos)
           [] OTHER -> Err("invalid funds variant")

\* InstantaneousRewardSource::encode
InstantaneousRewardSource_encode(v) ==
    CASE v.k = "Reserves" -> e_int(0)
      [] v.k = "Treasury" -> e_int(1)

\* InstantaneousRewardTarget::decode
InstantaneousRewardTarget_decode(t, p) ==
    LET ty == d_datatype(t, p) IN
    CASE ty = "EOF" -> Err(EndOfInput)
      [] ty = "Map" ->
            Wrap("StakeCredentials",
                 Fields(<<BTM(T("StakeCredential"), T("i64"))>>, t, p))
      [] OTHER -> Wrap("OtherAccountingPot", Fields(<<T("u64")>>, t, p))

\* InstantaneousRewardTarget::encode
InstantaneousRewardTarget_encode(v) ==
    CASE v.k = "StakeCredentials" ->
            Encode(BTM(T("StakeCredential"), T("i64")), v.f[1])
      [] v.k = "OtherAccountingPot" -> Encode(T("u64"), v.f[1])

\* Relay::decode
Relay_decode(t, p) ==
    LET a == d_array(t, p)
        variant == d_u16(t, a.pos)
    IN IF ~a.ok THEN a
       ELSE IF ~variant.ok THEN variant
       ELSE CASE variant.v = L(0) ->
                    Wrap("SingleHostAddr",
                         Fields(<<Opt(T("u32")), Opt(T("ByteVec")), Opt(T("ByteVec"))>>,
                                t, variant.pos))
              [] variant.v = L(1) ->
                    Wrap("SingleHostName",
                         Fields(<<Opt(T("u32")), T("String")>>, t, variant.pos))
              [] variant.v = L(2) ->
                    Wrap("MultiHostName", Fields(<<T("String")>>, t, variant.pos))
              [] OTHER -> Err("invalid variant id for Relay")

\* Relay::encode
Relay_encode(v) ==
    CASE v.k = "SingleHostAddr" ->
            e_array(4) \o e_int(0)
            \o EncFields(<<Opt(T("u32")), Opt(T("ByteVec")), Opt(T("ByteVec"))>>, v.f)
      [] v.k = "SingleHostName" ->
            e_array(3) \o e_int(1) \o EncFields(<<Opt(T("u32")), T("String")>>, v.f)
      [] v.k = "MultiHostName" ->
            e_array(2) \o e_int(2) \o EncFields(<<T("String")>>, v.f)

\* the tag RationalNumber::encode writes
RationalTag == 30

\* a decoder that takes the pair under tag 30 only
RationalNumber_decode_strict(t, p) ==
    LET g == d_tag(t, p)
        a == d_array(t, g.pos)
    IN IF ~g.ok THEN g
       ELSE IF g.v # L(RationalTag) THEN Err("invalid tag for rational number")
       ELSE IF ~a.ok THEN a
       ELSE Fields(<<T("i64"), T("u64")>>, t, a.pos)

\* RationalNumber::decode: whatever tag, then [numerator, denominator]
RationalNumber_decode(t, p) ==
    LET g == d_tag(t, p)
        a == d_array(t, g.pos)
    IN IF ~g.ok THEN g
       ELSE IF ~a.ok THEN a
       ELSE Fields(<<T("i64"), T("u64")>>, t, a.pos)

\* RationalNumber::encode
RationalNumber_encode(v) ==
    e_tag(L(RationalTag)) \o e_array(2) \o EncFields(<<T("i64"), T("u64")>>, v)

\* StakeCredential::decode
StakeCredential_decode(t, p) ==
    LET a == d_array(t, p)
        variant == d_u16(t, a.pos)
    IN IF ~a.ok THEN a
       ELSE IF ~variant.ok THEN variant
       ELSE CASE variant.v = L(0) ->
                    Wrap("AddrKeyhash", Fields(<<T("ByteVec")>>, t, variant.pos))
              [] variant.v = L(1) ->
                    Wrap("Scripthash", Fields(<<T("ByteVec")>>, t, variant.pos))
              [] OTHER -> Err("invalid variant id for StakeCredential")

\* StakeCredential::encode
StakeCredential_encode(v) ==
    CASE v.k = "AddrKeyhash" -> e_array(2) \o e_int(0) \o EncFields(<<T("ByteVec")>>, v.f)
      [] v.k = "Scripthash" -> e_array(2) \o e_int(0) \o EncFields(<<T("ByteVec")>>, v.f)

\* a variant table that falls back on the first variant
CertificateDecodeArm_default(variant) ==
    CASE variant = L(1) -> <<"StakeDeregistration", <<T("StakeCredential")>>>>
      [] variant = L(2) -> <<"StakeDelegation", <<T("StakeCredential"), T("ByteVec")>>>>
      [] variant = L(3) ->
            <<"PoolRegistration",
              <<T("ByteVec"), T("ByteVec"), T("u64"), T("u64"), T("RationalNumber"),
                T("ByteVec"), Vec(T("ByteVec")), Vec(T("Relay")),
                Opt(T("PoolMetadata"))>>>>
      [] variant = L(4) -> <<"PoolRetirement", <<T("ByteVec"), T("u64")>>>>
      [] variant = L(5) ->
            <<"GenesisKeyDelegation", <<T("SkipCbor"), T("SkipCbor"), T("ByteVec")>>>>
      [] variant = L(6) ->
            <<"MoveInstantaneousRewardsCert", <<T("MoveInstantaneousReward")>>>>
      [] OTHER -> <<"StakeRegistration", <<T("StakeCredential")>>>>

\* the fields Certificate::decode reads after each variant id
CertificateDecodeArm(variant) ==
    CASE variant = L(0) -> <<"StakeRegistration", <<T("StakeCredential")>>>>
      [] variant = L(1) -> <<"StakeDeregistration", <<T("StakeCredential")>>>>
      [] variant = L(2) -> <<"StakeDelegation", <<T("StakeCredential"), T("ByteVec")>>>>
      [] variant = L(3) ->
            <<"PoolRegistration",
              <<T("ByteVec"), T("ByteVec"), T("u64"), T("u64"), T("RationalNumber"),
                T("ByteVec"), Vec(T("ByteVec")), Vec(T("Relay")),
                Opt(T("PoolMetadata"))>>>>
      [] variant = L(4) -> <<"PoolRetirement", <<T("ByteVec"), T("u64")>>>>
      [] variant = L(5) ->
            <<"GenesisKeyDelegation", <<T("SkipCbor"), T("SkipCbor"), T("ByteVec")>>>>
      [] variant = L(6) ->
            <<"MoveInstantaneousRewardsCert", <<T("MoveInstantaneousReward")>>>>
      [] OTHER -> <<>>

\* Certificate::decode
Certificate_decode(t, p) ==
    LET a == d_array(t, p)
        variant == d_u16(t, a.pos)
        arm == CertificateDecodeArm(variant.v)
    IN IF ~a.ok THEN a
       ELSE IF ~variant.ok THEN variant
       ELSE IF arm = <<>> THEN Err("unknown variant id for certificate")
       ELSE Wrap(arm[1], Fields(arm[2], t, variant.pos))

\* what Certificate::encode writes for each variant: the array length, the
\* variant id and the types of the fields
CertificateEncodeArm(k) ==
    CASE k = "StakeRegistration" -> <<2, 0, <<T("StakeCredential")>>>>
      [] k = "StakeDeregistration" -> <<2, 1, <<T("StakeCredential")>>>>
      [] k = "StakeDelegation" -> <<3, 2, <<T("StakeCredential"), T("ByteVec")>>>>
      [] k = "PoolRegistration" ->
            <<10, 3,
              <<T("ByteVec"), T("ByteVec"), T("u64"), T("u64"), T("RationalNumber"),
                T("ByteVec"), Vec(T("ByteVec")), Vec(T("Relay")),
                Opt(T("PoolMetadata"))>>>>
      [] k = "PoolRetirement" -> <<3, 4, <<T("ByteVec"), T("u64")>>>>
      [] k = "GenesisKeyDelegation" ->
            <<4, 5, <<T("SkipCbor"), T("SkipCbor"), T("ByteVec")>>>>
      [] k = "MoveInstantaneousRewardsCert" ->
            <<3, 6, <<T("MoveInstantaneousReward")>>>>

\* Certificate::encode
Certificate_encode(v) ==
    LET arm == CertificateEncodeArm(v.k) IN
    e_array(arm[1]) \o e_int(arm[2]) \o EncFields(arm[3], v.f)

\* the value TransactionBodyComponent::decode reads after each key
ComponentDecodeArm(key) ==
    CASE key = L(0) -> <<"Inputs", Vec(T("TransactionInput"))>>
      [] key = L(1) -> <<"Outputs", Vec(T("TransactionOutput"))>>
      [] key = L(2) -> <<"Fee", T("u64")>>
      [] key = L(3) -> <<"Ttl", Opt(T("u64"))>>
      [] key = L(4) -> <<"Certificates", Opt(Vec(T("Certificate")))>>
      [] key = L(5) -> <<"Withdrawals", Opt(BTM(T("ByteVec"), T("u64")))>>
      [] key = L(6) -> <<"Update", Opt(T("SkipCbor"))>>
      [] key = L(7) -> <<"AuxiliaryDataHash", Opt(T("ByteVec"))>>
      [] key = L(8) -> <<"ValidityIntervalStart", Opt(T("u64"))>>
      [] key = L(9) -> <<"Mint", Opt(Multiasset(T("i64")))>>
      [] key = L(11) -> <<"ScriptDataHash", Opt(T("ByteVec"))>>
      [] key = L(13) -> <<"Collateral", Opt(Vec(T("TransactionInput")))>>
      [] key = L(14) -> <<"RequiredSigners", Opt(Vec(T("ByteVec")))>>
      [] key = L(15) -> <<"NetworkId", Opt(T("NetworkId"))>>
      [] OTHER -> <<>>

InvalidMapKey == "invalid map key for transaction body component"

\* a component decoder that passes over the value of a key it does not know
TransactionBodyComponent_decode_lenient(t, p) ==
    LET key == d_u32(t, p)
        arm == ComponentDecodeArm(key.v)
    IN IF ~key.ok THEN key
       ELSE IF arm = <<>> THEN Wrap("Unknown", Fields(<<T("SkipCbor")>>, t, key.pos))
       ELSE Wrap(arm[1], Fields(<<arm[2]>>, t, key.pos))

\* TransactionBodyComponent::decode
TransactionBodyComponent_decode(t, p) ==
    LET key == d_u32(t, p)
        arm == ComponentDecodeArm(key.v)
    IN IF ~key.ok THEN key
       ELSE IF arm = <<>> THEN Err(InvalidMapKey)
       ELSE Wrap(arm[1], Fields(<<arm[2]>>, t, key.pos))

\* the key and the value TransactionBodyComponent::encode writes
ComponentEncodeArm(k) ==
    CASE k = "Inputs" -> <<0, Vec(T("TransactionInput"))>>
      [] k = "Outputs" -> <<1, Vec(T("TransactionOutput"))>>
      [] k = "Fee" -> <<2, T("u64")>>
      [] k = "Ttl" -> <<3, Opt(T("u64"))>>
      [] k = "Certificates" -> <<4, Opt(Vec(T("Certificate")))>>
      [] k = "Withdrawals" -> <<5, Opt(BTM(T("ByteVec"), T("u64")))>>
      [] k = "Update" -> <<6, Opt(T("SkipCbor"))>>
      [] k = "AuxiliaryDataHash" -> <<7, Opt(T("ByteVec"))>>
      [] k = "ValidityIntervalStart" -> <<8, Opt(T("u64"))>>
      [] k = "Mint" -> <<9, Opt(Multiasset(T("i64")))>>
      [] k = "ScriptDataHash" -> <<11, Opt(T("ByteVec"))>>
      [] k = "Collateral" -> <<13, Opt(Vec(T("TransactionInput")))>>
      [] k = "RequiredSigners" -> <<14, Opt(Vec(T("ByteVec")))>>
      [] k = "NetworkId" -> <<15, Opt(T("NetworkId"))>>

\* TransactionBodyComponent::encode
TransactionBodyComponent_encode(v) ==
    LET arm == ComponentEncodeArm(v.k) IN
    e_int(arm[1]) \o EncFields(<<arm[2]>>, v.f)

\* TransactionBody::decode: as many components as the map declares; an
\* indefinite map declares none (unwrap_or_default)
TransactionBody_decode(t, p) ==
    LET m == d_map(t, p)
        len == IF m.v = <<>> THEN 0 ELSE m.v[1]
    IN IF ~m.ok THEN m
       ELSE VecItems(T("TransactionBodyComponent"), t, m.pos, len, <<>>)

\* the components of v under the keys from k on, in key order
RECURSIVE CanonicalOrder(_, _)
CanonicalOrder(v, k) ==
    IF k > 15 THEN <<>>
    ELSE SelectSeq(v, LAMBDA c : ComponentEncodeArm(c.k)[1] = k) \o CanonicalOrder(v, k + 1)

\* an encoder that writes the components in key order
TransactionBody_encode_canonical(v) ==
    e_map(Len(v)) \o EncItems(T("TransactionBodyComponent"), CanonicalOrder(v, 0))

\* TransactionBody::encode
TransactionBody_encode(v) ==
    e_map(Len(v)) \o EncItems(T("TransactionBodyComponent"), v)

\* the fields NativeScript::decode reads after each variant id
NativeScriptDecodeArm(variant) ==
    CASE variant = L(0) -> <<"ScriptPubkey", <<T("ByteVec")>>>>
      [] variant = L(1) -> <<"ScriptAll", <<Vec(T("NativeScript"))>>>>
      [] variant = L(2) -> <<"ScriptAny", <<Vec(T("NativeScript"))>>>>
      [] variant = L(3) -> <<"ScriptNOfK", <<T("u32"), Vec(T("NativeScript"))>>>>
      [] variant = L(4) -> <<"InvalidBefore", <<T("u64")>>>>
      [] variant = L(5) -> <<"InvalidHereafter", <<T("u64")>>>>
      [] OTHER -> <<>>

\* NativeScript::decode
NativeScript_decode(t, p) ==
    LET a == d_array(t, p)
        variant == d_u32(t, a.pos)
        arm == NativeScriptDecodeArm(variant.v)
    IN IF ~a.ok THEN a
       ELSE IF ~variant.ok THEN variant
       ELSE IF arm = <<>> THEN Err("unknown variant id for native script")
       ELSE Wrap(arm[1], Fields(arm[2], t, variant.pos))

\* the variant id and the fields NativeScript::encode writes
NativeScriptEncodeArm(k) ==
    CASE k = "ScriptPubkey" -> <<0, <<T("ByteVec")>>>>
      [] k = "ScriptAll" -> <<1, <<Vec(T("NativeScript"))>>>>
      [] k = "ScriptAny" -> <<2, <<Vec(T("NativeScript"))>>>>
      [] k = "ScriptNOfK" -> <<3, <<T("u32"), Vec(T("NativeScript"))>>>>
      [] k = "InvalidBefore" -> <<4, <<T("u64")>>>>
      [] k = "InvalidHereafter" -> <<5, <<T("u64")>>>>

\* NativeScript::encode: e.array(2) for every variant
NativeScript_encode(v) ==
    LET arm == NativeScriptEncodeArm(v.k) IN
    e_array(2) \o e_int(arm[1]) \o EncFields(arm[2], v.f)

PosBignum == 2
NegBignum == 3

\* a decoder that takes the bytes under any tag as a positive bignum
BigInt_decode_any_tag(t, p) ==
    LET datatype == d_datatype(t, p) IN
    CASE datatype = "EOF" -> Err(EndOfInput)
      [] datatype \in IntTypes -> Wrap("Int", Fields(<<T("i64")>>, t, p))
      [] datatype = "Tag" ->
            (CASE t[p].a = L(NegBignum) -> Wrap("BigNInt", Fields(<<T("ByteVec")>>, t, p + 1))
               [] OTHER -> Wrap("BigUInt", Fields(<<T("ByteVec")>>, t, p + 1)))
      [] OTHER -> Err("invalid cbor data type for big int")

\* BigInt::decode
BigInt_decode(t, p) ==
    LET datatype == d_datatype(t, p) IN
    CASE datatype = "EOF" -> Err(EndOfInput)
      [] datatype \in IntTypes -> Wrap("Int", Fields(<<T("i64")>>, t, p))
      [] datatype = "Tag" ->
            (CASE t[p].a = L(PosBignum) -> Wrap("BigUInt", Fields(<<T("ByteVec")>>, t, p + 1))
               [] t[p].a = L(NegBignum) -> Wrap("BigNInt", Fields(<<T("ByteVec")>>, t, p + 1))
               [] OTHER -> Err("invalid cbor tag for big int"))
      [] OTHER -> Err("invalid cbor data type for big int")

\* BigInt::encode
BigInt_encode(v) ==
    CASE v.k = "Int" -> Encode(T("i64"), v.f[1])
      [] v.k = "BigUInt" -> e_tag(L(PosBignum)) \o Encode(T("ByteVec"), v.f[1])
      [] v.k = "BigNInt" -> e_tag(L(NegBignum)) \o Encode(T("ByteVec"), v.f[1])

\* the tag of the general constructor form
GeneralConstrTag == 102

\* Tag::Unassigned(121..=127 | 1280..=1400)
IsCompactConstrTag(a) ==
    FitsU16(a) /\ ((121 <= a[4] /\ a[4] <= 127) \/ (1280 <= a[4] /\ a[4] <= 1400))

\* PlutusData::decode
PlutusData_decode(t, p) ==
    LET type_ == d_datatype(t, p) IN
    CASE type_ = "EOF" -> Err(EndOfInput)
      [] type_ = "Tag" ->
            (CASE IsCompactConstrTag(t[p].a) \/ t[p].a = L(GeneralConstrTag) ->
                     Wrap("Constr", Fields(<<PlutusDataField("Constr")>>, t, p))
               [] t[p].a \in {L(PosBignum), L(NegBignum)} ->
                     Wrap("BigInt", Fields(<<T("BigInt")>>, t, p))
               [] OTHER -> Err("unknown tag for plutus data tag"))
      [] type_ \in IntTypes -> Wrap("BigInt", Fields(<<T("BigInt")>>, t, p))
      [] type_ = "Map" -> Wrap("Map", Fields(<<PlutusDataField("Map")>>, t, p))
      [] type_ = "Bytes" -> Wrap("BoundedBytes", Fields(<<T("ByteVec")>>, t, p))
      [] type_ = "Array" -> Wrap("Array", Fields(<<PlutusDataField("Array")>>, t, p))
      [] type_ = "ArrayIndef" ->
            Wrap("ArrayIndef", Fields(<<PlutusDataField("ArrayIndef")>>, t, p))
      [] OTHER -> Err("bad cbor data type for plutus data")

\* PlutusData::encode
PlutusData_encode(v) == Encode(PlutusDataField(v.k), v.f[1])

\* IndefVec<A>::decode
IndefVec_decode(ty, t, p) == Vec_decode(ty, t, p)

\* an encoder that writes every element between the begin and end markers
IndefVec_encode_all(ty, vs) == e_begin_array \o EncItems(ty, vs) \o e_end

\* IndefVec<A>::encode: begin/end markers when empty, else array(0) alone
IndefVec_encode(ty, vs) ==
    IF vs = <<>>
    THEN e_begin_array \o EncItems(ty, vs) \o e_end
    ELSE e_array(0)

\* Constr<A>::decode; a Constr is <<tag, prefix, values>>
Constr_decode(ty, t, p) ==
    LET tag == d_tag(t, p) IN
    IF ~tag.ok THEN tag
    ELSE CASE IsCompactConstrTag(tag.v) ->
                LET values == Fields(<<<<"IndefVec", ty>>>>, t, tag.pos) IN
                IF ~values.ok THEN values
                ELSE Ok(<<tag.v, <<>>, values.v[1]>>, values.pos)
           [] tag.v = L(GeneralConstrTag) ->
                LET a == d_array(t, tag.pos)
                    r == Fields(<<T("u32"), <<"IndefVec", ty>>>>, t, a.pos)
                IN IF ~a.ok THEN a
                   ELSE IF ~r.ok THEN r
                   ELSE Ok(<<L(GeneralConstrTag), <<r.v[1]>>, r.v[2]>>, r.pos)
           [] OTHER -> Err("bad tag code for plutus data")

\* an encoder that writes the values directly after every tag
Constr_encode_flat(ty, v) == e_tag(v[1]) \o Encode(<<"IndefVec", ty>>, v[3])

\* Constr<A>::encode
Constr_encode(ty, v) ==
    e_tag(v[1])
    \o (IF v[1] = L(GeneralConstrTag)
        THEN e_array(2) \o EncFields(<<Opt(T("u32")), <<"IndefVec", ty>>>>, <<v[2], v[3]>>)
        ELSE Encode(<<"IndefVec", ty>>, v[3]))

\* Decoder::i8, i16, i32: an integer header whose value fits the width
d_i8(t, p) ==
    LET r == d_i64(t, p) IN
    IF ~r.ok THEN r
    ELSE IF FitsU8(r.v.n) /\ r.v.n[4] < 128 THEN r ELSE Err(Overflow)

d_i16(t, p) ==
    LET r == d_i64(t, p) IN
    IF ~r.ok THEN r
    ELSE IF FitsU16(r.v.n) /\ r.v.n[4] < 32768 THEN r ELSE Err(Overflow)

d_i32(t, p) ==
    LET r == d_i64(t, p) IN
    IF ~r.ok THEN r
    ELSE IF FitsU32(r.v.n) /\ r.v.n[3] < 32768 THEN r ELSE Err(Overflow)

\* the unsigned reads of Metadatum::decode, each cast `as i64`
CastI64(r) == IF r.ok THEN Ok(AsI64(r.v), r.pos) ELSE r

\* Metadatum::decode
Metadatum_decode(t, p) ==
    LET ty == d_datatype(t, p) IN
    CASE ty = "EOF" -> Err(EndOfInput)
      [] ty = "U8" -> Wrap("Int", One(CastI64(d_u8(t, p))))
      [] ty = "U16" -> Wrap("Int", One(CastI64(d_u16(t, p))))
      [] ty = "U32" -> Wrap("Int", One(CastI64(d_u32(t, p))))
      [] ty = "U64" -> Wrap("Int", One(CastI64(d_u64(t, p))))
      [] ty = "I8" -> Wrap("Int", One(d_i8(t, p)))
      [] ty = "I16" -> Wrap("Int", One(d_i16(t, p)))
      [] ty = "I32" -> Wrap("Int", One(d_i32(t, p)))
      [] ty = "I64" -> Wrap("Int", One(d_i64(t, p)))
      [] ty = "Bytes" -> Wrap("Bytes", Fields(<<T("ByteVec")>>, t, p))
      [] ty = "String" -> Wrap("Text", Fields(<<T("String")>>, t, p))
      [] ty = "Array" -> Wrap("Array", Fields(<<Vec(T("Metadatum"))>>, t, p))
      [] ty = "Map" -> Wrap("Map", Fields(<<Metadata>>, t, p))
      [] OTHER -> Err("Can't turn data type into metadatum")

\* the type of the field of each Metadatum variant
MetadatumField(k) ==
    CASE k = "Int" -> T("i64")
      [] k = "Bytes" -> T("ByteVec")
      [] k = "Text" -> T("String")
      [] k = "Array" -> Vec(T("Metadatum"))
      [] k = "Map" -> Metadata

\* Metadatum::encode
Metadatum_encode(v) == Encode(MetadatumField(v.k), v.f[1])

\* the tag AuxiliaryData::encode writes before the Alonzo record
AlonzoAuxTag == 259

\* a decoder that takes the Alonzo record under tag 259 only
AuxiliaryData_decode_strict(t, p) ==
    LET ty == d_datatype(t, p) IN
    CASE ty = "EOF" -> Err(EndOfInput)
      [] ty = "Map" -> Wrap("Shelley", Fields(<<Metadata>>, t, p))
      [] ty = "Array" ->
            Wrap("ShelleyMa", Fields(<<Metadata, Vec(T("SkipCbor"))>>, t, p + 1))
      [] ty = "Tag" /\ t[p].a = L(AlonzoAuxTag) ->
            Wrap("Alonzo", Fields(<<T("AlonzoAuxiliaryData")>>, t, p + 1))
      [] OTHER -> Err("Can't infer variant from data type for AuxiliaryData")

\* AuxiliaryData::decode
AuxiliaryData_decode(t, p) ==
    LET ty == d_datatype(t, p) IN
    CASE ty = "EOF" -> Err(EndOfInput)
      [] ty = "Map" -> Wrap("Shelley", Fields(<<Metadata>>, t, p))
      [] ty = "Array" ->
            Wrap("ShelleyMa", Fields(<<Metadata, Vec(T("SkipCbor"))>>, t, p + 1))
      [] ty = "Tag" -> Wrap("Alonzo", Fields(<<T("AlonzoAuxiliaryData")>>, t, p + 1))
      [] OTHER -> Err("Can't infer variant from data type for AuxiliaryData")

\* AuxiliaryData::encode
AuxiliaryData_encode(v) ==
    CASE v.k = "Shelley" -> Encode(Metadata, v.f[1])
      [] v.k = "ShelleyMa" ->
            e_array(2) \o EncFields(<<Metadata, Vec(T("SkipCbor"))>>, v.f)
      [] v.k = "Alonzo" ->
            e_tag(L(AlonzoAuxTag)) \o Encode(T("AlonzoAuxiliaryData"), v.f[1])

(***************************************************************************)
(* d.decode() / e.encode(x): the codec of the type at hand                 *)
(***************************************************************************)
Decode(ty, t, p) ==
    LET c == ty[1] IN
    CASE c = "u64" -> d_u64(t, p)
      [] c = "u32" -> d_u32(t, p)
      [] c = "u16" -> d_u16(t, p)
      [] c = "i64" -> d_i64(t, p)
      [] c = "ByteVec" -> d_bytes(t, p)
      [] c = "String" -> d_str(t, p)
      [] c = "Option" -> Option_decode(ty[2], t, p)
      [] c = "Vec" -> Vec_decode(ty[2], t, p)
      [] c = "BTreeMap" -> BTreeMap_decode(ty[2], ty[3], t, p)
      [] c = "KeyValuePairs" -> KeyValuePairs_decode(ty[2], ty[3], t, p)
      [] c = "IndefVec" -> IndefVec_decode(ty[2], t, p)
      [] c = "Constr" -> Constr_decode(ty[2], t, p)
      [] c \in ArrayStructs -> DeriveArray_decode(StructFields(c), t, p)
      [] c \in MapStructs -> DeriveMap_decode(StructFields(c), t, p)
      [] c = "NetworkId" -> IndexOnly_decode(NetworkIdNames, t, p)
      [] c = "RedeemerTag" -> IndexOnly_decode(RedeemerTagNames, t, p)
      [] c = "SkipCbor" -> SkipCbor_decode(t, p)
      [] c = "Value" -> Value_decode(t, p)
      [] c = "InstantaneousRewardSource" -> InstantaneousRewardSource_decode(t, p)
      [] c = "InstantaneousRewardTarget" -> InstantaneousRewardTarget_decode(t, p)
      [] c = "Relay" -> Relay_decode(t, p)
      [] c = "RationalNumber" -> RationalNumber_decode(t, p)
      [] c = "StakeCredential" -> StakeCredential_decode(t, p)
      [] c = "Certificate" -> Certificate_decode(t, p)
      [] c = "TransactionBodyComponent" -> TransactionBodyComponent_decode(t, p)
      [] c = "TransactionBody" -> TransactionBody_decode(t, p)
      [] c = "NativeScript" -> NativeScript_decode(t, p)
      [] c = "BigInt" -> BigInt_decode(t, p)
      [] c = "PlutusData" -> PlutusData_decode(t, p)
      [] c = "Metadatum" -> Metadatum_decode(t, p)
      [] c = "AuxiliaryData" -> AuxiliaryData_decode(t, p)

Encode(ty, v) ==
    LET c == ty[1] IN
    CASE c \in {"u64", "u32", "u16"} -> e_u64(v)
      [] c = "i64" -> e_i64(v)
      [] c = "ByteVec" -> e_bytes(v)
      [] c = "String" -> e_str(v)
      [] c = "Option" -> Option_encode(ty[2], v)
      [] c = "Vec" -> Vec_encode(ty[2], v)
      [] c = "BTreeMap" -> BTreeMap_encode(ty[2], ty[3], v)
      [] c = "KeyValuePairs" -> KeyValuePairs_encode(ty[2], ty[3], v)
      [] c = "IndefVec" -> IndefVec_encode(ty[2], v)
      [] c = "Constr" -> Constr_encode(ty[2], v)
      [] c \in ArrayStructs -> DeriveArray_encode(StructFields(c), v)
      [] c \in MapStructs -> DeriveMap_encode(StructFields(c), v)
      [] c = "NetworkId" -> IndexOnly_encode(NetworkIdNames, v)
      [] c = "RedeemerTag" -> IndexOnly_encode(RedeemerTagNames, v)
      [] c = "SkipCbor" -> SkipCbor_encode(v)
      [] c = "Value" -> Value_encode(v)
      [] c = "InstantaneousRewardSource" -> InstantaneousRewardSource_encode(v)
      [] c = "InstantaneousRewardTarget" -> InstantaneousRewardTarget_encode(v)
      [] c = "Relay" -> Relay_encode(v)
      [] c = "RationalNumber" -> RationalNumber_encode(v)
      [] c = "StakeCredential" -> StakeCredential_encode(v)
      [] c = "Certificate" -> Certificate_encode(v)
      [] c = "TransactionBodyComponent" -> TransactionBodyComponent_encode(v)
      [] c = "TransactionBody" -> TransactionBody_encode(v)
      [] c = "NativeScript" -> NativeScript_encode(v)
      [] c = "BigInt" -> BigInt_encode(v)
      [] c = "PlutusData" -> PlutusData_encode(v)
      [] c = "Metadatum" -> Metadatum_encode(v)
      [] c = "AuxiliaryData" -> AuxiliaryData_encode(v)

(***************************************************************************)
(* Wire inputs.  Every input is one item of the type under test, built     *)
(* from the pieces below, followed by sibling tokens the decoder must      *)
(* leave alone.                                                            *)
(***************************************************************************)
\* bounds of the input space
MaxDisc == 8
MaxComponents == 2
SkipDepth == 1
MaxRounds == 1

U(w, n) == Tok("uint", w, L(n), <<>>)
UL(w, a) == Tok("uint", w, a, <<>>)
NL(w, a) == Tok("nint", w, a, <<>>)
B(b) == Tok("bytes", MinWidth(L(Len(b))), L(Len(b)), b)
Txt(s) == Tok("text", MinWidth(L(Len(s))), L(Len(s)), s)
A(n) == Tok("array", MinWidth(L(n)), L(n), <<>>)
M(n) == Tok("map", MinWidth(L(n)), L(n), <<>>)
G(n) == Tok("tag", MinWidth(L(n)), L(n), <<>>)
AI == Tok("arrayindef", 0, L(0), <<>>)
MI == Tok("mapindef", 0, L(0), <<>>)
BRK == Tok("break", 0, L(0), <<>>)
NUL == Tok("simple", 0, L(22), <<>>)

\* an unsigned header of the least width that holds n
Um(n) == U(MinWidth(L(n)), n)

H1 == <<1, 1>>
H2 == <<2>>
Hashes == {H1, H2}

\* the boundaries of the integer range
U63Max == <<32767, 65535, 65535, 65535>>
U63Next == <<32768, 0, 0, 0>>
U64Max == <<65535, 65535, 65535, 65535>>

\* unsigned integer items: every header width, minimal or not, up to 2^64-1
UintToks ==
    {U(0, 0), U(0, 5), U(1, 5), U(1, 200), U(2, 200), U(2, 1000), U(4, 1000),
     UL(4, <<0, 0, 1, 4464>>), UL(8, <<0, 0, 1, 4464>>), UL(8, <<0, 1, 0, 0>>),
     UL(8, U63Max), UL(8, U63Next), UL(8, U64Max)}

\* negative integer items: -1 - n
NintToks ==
    {NL(0, L(0)), NL(1, L(100)), NL(1, L(200)), NL(2, L(1000)),
     NL(4, <<0, 0, 1, 4464>>), NL(8, U63Max), NL(8, U63Next), NL(8, U64Max)}

\* items of any shape, nested up to SkipDepth
RECURSIVE Shapes(_)
Shapes(d) ==
    IF d = 0
    THEN {<<U(0, 7)>>, <<NL(1, L(200))>>, <<B(H1)>>, <<Txt(<<97>>)>>, <<NUL>>,
          <<A(0)>>, <<M(0)>>, <<AI, BRK>>}
    ELSE LET s == Shapes(d - 1) IN
         s \cup {<<A(1)>> \o x : x \in s}
           \cup {<<A(2)>> \o x \o <<U(0, 0)>> : x \in s}
           \cup {<<M(1)>> \o <<U(0, 0)>> \o x : x \in s}
           \cup {<<M(1)>> \o x \o <<B(H2)>> : x \in s}
           \cup {<<G(24)>> \o x : x \in s}
           \cup {<<AI>> \o x \o <<BRK>> : x \in s}
           \cup {<<MI>> \o x \o x \o <<BRK>> : x \in s}

\* the tokens that may follow the item under test
Siblings == {<<>>, <<B(H2)>>, <<U(0, 2), A(0)>>}

Input(ty, item, ok) == [typ |-> ty, item |-> item, valid |-> ok, keys |-> <<>>]

SkipCborInputs == {Input("SkipCbor", x, TRUE) : x \in Shapes(SkipDepth)}

\* multi-asset maps: { policy: { asset: quantity } }
MultiassetWires(q) ==
    {<<M(0)>>, <<M(1), B(H1), M(1), B(H2)>> \o q,
     <<M(2), B(H2), M(1), B(H1)>> \o q \o <<B(H1), M(0)>>}

ValueInputs ==
    {Input("Value", <<k>>, TRUE) : k \in UintToks}
    \cup {Input("Value", <<A(2), k>> \o m, TRUE) :
            k \in {U(0, 5), UL(8, U64Max)}, m \in MultiassetWires(<<U(1, 200)>>)}
    \cup {Input("Value", x, FALSE) :
            x \in {<<NL(0, L(0))>>, <<B(H1)>>, <<AI, U(0, 5), M(0), BRK>>, <<>>}}

BigIntInputs ==
    {Input("BigInt", <<k>>, TRUE) : k \in UintToks \cup NintToks}
    \cup {Input("BigInt", <<G(g), B(h)>>, g \in {PosBignum, NegBignum}) :
            g \in {2, 3, 4, 30, 121}, h \in {<<>>, H1, <<1, 0, 0, 0, 0, 0, 0, 0, 0>>}}
    \cup {Input("BigInt", x, FALSE) :
            x \in {<<B(H1)>>, <<G(PosBignum), U(0, 1)>>, <<A(0)>>, <<Txt(<<97>>)>>, <<M(0)>>,
                   <<NUL>>, <<AI, BRK>>, <<>>}}

InstantaneousRewardSourceInputs ==
    {Input("InstantaneousRewardSource", <<U(w, d)>>, d <= 1) :
        w \in {0, 1}, d \in 0..MaxDisc}

StakeCredentialWires(ds) == {<<A(2), U(0, d), B(h)>> : d \in ds, h \in Hashes}

StakeCredentialInputs ==
    {Input("StakeCredential", x, x[2].a \in {L(0), L(1)}) :
        x \in StakeCredentialWires(0..MaxDisc)}
    \cup {Input("StakeCredential", <<A(2), U(1, 1), B(H1)>>, TRUE),
          Input("StakeCredential", <<A(2), B(H1), B(H1)>>, FALSE),
          Input("StakeCredential", <<A(2), U(0, 1), U(0, 1)>>, FALSE)}

RelayWires ==
    {<<A(4), U(0, 0), q, a, NUL>> : q \in {U(2, 3001), NUL}, a \in {B(H1), NUL}}
    \cup {<<A(3), U(0, 1), q, Txt(<<97, 98>>)>> : q \in {U(2, 3001), NUL}}
    \cup {<<A(2), U(0, 2), Txt(<<97>>)>>}

RelayInputs ==
    {Input("Relay", x, TRUE) : x \in RelayWires}
    \cup {Input("Relay", <<A(2), U(0, d), Txt(<<97>>)>>, FALSE) : d \in 3..MaxDisc}

NativeScriptLeaves ==
    {<<A(2), U(0, 0), B(H1)>>, <<A(2), U(0, 4), U(0, 7)>>, <<A(2), U(0, 5), U(1, 200)>>}

NativeScriptLists ==
    {<<A(0)>>} \cup {<<A(1)>> \o x : x \in NativeScriptLeaves}
    \cup {<<A(2)>> \o x \o <<A(2), U(0, 0), B(H2)>> : x \in NativeScriptLeaves}

NativeScriptWires ==
    NativeScriptLeaves
    \cup {<<A(2), U(0, d)>> \o l : d \in {1, 2}, l \in NativeScriptLists}
    \cup {<<A(3), U(0, 3), U(0, 1)>> \o l : l \in NativeScriptLists}
    \cup {<<A(2), U(0, 1), A(1), A(3), U(0, 3), U(0, 1), A(1)>> \o x :
            x \in NativeScriptLeaves}

NativeScriptInputs ==
    {Input("NativeScript", x, TRUE) : x \in NativeScriptWires}
    \cup {Input("NativeScript", <<A(2), U(0, d), B(H1)>>, FALSE) : d \in 6..MaxDisc}

\* move_instantaneous_reward = [ 0 / 1, { * stake_credential => delta_coin } / coin ]
MirTargets ==
    {<<U(1, 100)>>,
     <<M(1), A(2), U(0, 0), B(H1), NL(0, L(4))>>,
     <<M(2), A(2), U(0, 1), B(H1), U(0, 3), A(2), U(0, 0), B(H2), U(0, 4)>>,
     <<M(2), A(2), U(0, 1), B(H1), U(0, 3), A(2), U(0, 0), B(H1), U(0, 4)>>}

PoolRegistrationWires ==
    {<<A(10), U(0, 3), B(H1), B(H2), U(1, 100), U(1, 50), G(RationalTag), A(2), U(0, 1),
       U(0, 2), B(H1), A(1), B(H2)>> \o r \o m :
        r \in {<<A(0)>>} \cup {<<A(1)>> \o x : x \in RelayWires},
        m \in {<<NUL>>, <<A(2), Txt(<<97>>), B(H1)>>}}

GenesisKeyDelegationWires ==
    {<<A(4), U(0, 5)>> \o x \o <<B(H2), B(h)>> : x \in Shapes(SkipDepth), h \in Hashes}
    \cup {<<A(4), U(0, 5), U(0, 1)>> \o y \o <<B(H1)>> : y \in Shapes(SkipDepth)}

CertificateWires ==
    {<<A(2), U(0, d)>> \o c : d \in {0, 1}, c \in StakeCredentialWires({0, 1})}
    \cup {<<A(3), U(0, 2)>> \o c \o <<B(H1)>> : c \in StakeCredentialWires({0, 1})}
    \cup PoolRegistrationWires
    \cup {<<A(3), U(0, 4), B(H1), U(1, 200)>>}
    \cup GenesisKeyDelegationWires
    \cup {<<A(2), U(0, 6), A(2), U(0, src)>> \o tgt : src \in {0, 1}, tgt \in MirTargets}

CertificateInputs ==
    {Input("Certificate", x, TRUE) : x \in CertificateWires}
    \cup {Input("Certificate", <<A(2), U(0, d), B(H1)>>, FALSE) : d \in 7..MaxDisc}
    \cup {Input("Certificate", <<A(2), U(0, 6), A(2), U(0, 2), U(1, 100)>>, FALSE)}

MetadataWires ==
    {<<M(0)>>, <<M(1), U(0, 1), Txt(<<97>>)>>,
     <<M(2), U(0, 2), B(H1), U(0, 1), A(1), U(0, 3)>>}

AlonzoAuxWires ==
    {<<M(0)>>}
    \cup {<<M(1), U(0, 0)>> \o m : m \in MetadataWires}
    \cup {<<M(2), U(0, 1), A(1), A(2), U(0, 0), B(H1), U(0, 2), B(H2)>>}

AuxiliaryDataWires ==
    MetadataWires
    \cup {<<A(2)>> \o m \o <<A(0)>> : m \in MetadataWires}
    \cup {<<A(2), M(0), A(1)>> \o x : x \in Shapes(0)}
    \cup {<<G(g)>> \o r : g \in {AlonzoAuxTag, 24}, r \in AlonzoAuxWires}

AuxiliaryDataInputs ==
    {Input("AuxiliaryData", x, TRUE) : x \in AuxiliaryDataWires}
    \cup {Input("AuxiliaryData", x, FALSE) :
            x \in {<<U(0, 1)>>, <<B(H1)>>, <<Txt(<<97>>)>>, <<NUL>>, <<AI, M(0), A(0), BRK>>,
                   <<MI, BRK>>, <<NL(0, L(0))>>, <<>>}}

\* transaction-body components: [key, value tokens], one or two per key
\* the schema declares, and the keys it does not declare
Components ==
    {<<0, <<A(1), A(2), B(H1), U(0, 0)>>>>,
     <<1, <<A(1), A(2), B(H1), UL(4, <<0, 0, 1, 4464>>)>>>>,
     <<2, <<U(0, 5)>>>>,
     <<2, <<U(2, 1000)>>>>,
     <<3, <<U(0, 7)>>>>,
     <<4, <<A(1), A(2), U(0, 0), A(2), U(0, 0), B(H1)>>>>,
     <<5, <<M(2), B(H2), U(0, 1), B(H1), U(0, 2)>>>>,
     <<6, <<NUL>>>>,
     <<6, <<A(2), M(0), U(0, 1)>>>>,
     <<7, <<B(H1)>>>>,
     <<8, <<U(0, 3)>>>>,
     <<9, <<M(1), B(H1), M(1), B(H2), NL(0, L(0))>>>>,
     <<11, <<B(H2)>>>>,
     <<13, <<A(1), A(2), B(H2), U(0, 1)>>>>,
     <<14, <<A(1), B(H1)>>>>,
     <<15, <<U(0, 1)>>>>,
     <<10, <<U(0, 0)>>>>,
     <<12, <<B(H1)>>>>,
     <<16, <<U(0, 0)>>>>}

DeclaredKeys == {0, 1, 2, 3, 4, 5, 6, 7, 8, 9, 11, 13, 14, 15}

\* every sequence of at most n components, as <<keys, tokens>>
RECURSIVE ComponentSeqs(_)
ComponentSeqs(n) ==
    IF n = 0 THEN {<<<<>>, <<>>>>}
    ELSE LET s == ComponentSeqs(n - 1) IN
         s \cup {<<<<c[1]>> \o x[1], <<Um(c[1])>> \o c[2] \o x[2]>> :
                    c \in Components, x \in {y \in s : Len(y[1]) = n - 1}}

BodyInput(x, indefinite) ==
    [typ |-> "TransactionBody",
     item |-> IF indefinite THEN <<MI>> \o x[2] \o <<BRK>> ELSE <<M(Len(x[1]))>> \o x[2],
     valid |-> \A i \in 1..Len(x[1]) : x[1][i] \in DeclaredKeys,
     keys |-> x[1]]

TransactionBodyInputs ==
    {BodyInput(x, FALSE) : x \in ComponentSeqs(MaxComponents)}
    \cup {BodyInput(x, TRUE) : x \in ComponentSeqs(1)}

\* a header: 15-field body and the body signature
HeaderWire ==
    <<A(2), A(15), U(1, 100), U(2, 1000), B(H1), B(H2), B(H1), A(2), B(H1), B(H2), A(2),
      B(H2), B(H1), U(1, 200), B(H1), B(H2), U(0, 0), U(0, 1), B(H1), U(0, 5), U(0, 0),
      B(H2)>>

\* the transaction bodies of the sample blocks: each a definite map of
\* declared keys, the integers in their shortest form
BlockBodies ==
    {<<M(0)>>,
     <<M(2), U(0, 0), A(1), A(2), B(H1), U(0, 0), U(0, 2), U(2, 1000)>>,
     <<M(2), U(0, 2), U(2, 1000), U(0, 0), A(1), A(2), B(H1), U(0, 0)>>,
     <<M(1), U(0, 1), A(1), A(2), B(H1), UL(4, <<0, 0, 1, 4464>>)>>,
     <<M(1), U(0, 1), A(1), A(2), B(H1), U(0, 5)>>,
     <<M(1), U(0, 1), A(1), A(2), B(H1), A(2), UL(4, <<0, 0, 1, 4464>>), M(1), B(H1), M(1),
       B(H2), U(0, 1)>>,
     <<M(1), U(0, 5), M(1), B(H1), U(0, 2)>>,
     <<M(1), U(0, 6), A(2), M(0), U(0, 1)>>,
     <<M(1), U(0, 9), M(1), B(H1), M(1), B(H2), NL(0, L(0))>>,
     <<M(2), U(0, 7), B(H1), U(0, 15), U(0, 1)>>}
    \cup {<<M(1), U(0, 4), A(1)>> \o c :
            c \in {<<A(2), U(0, 0), A(2), U(0, 0), B(H1)>>,
                   <<A(2), U(0, 1), A(2), U(0, 1), B(H1)>>,
                   <<A(3), U(0, 4), B(H1), U(1, 200)>>,
                   <<A(4), U(0, 5), B(H1), B(H2), B(H1)>>,
                   <<A(2), U(0, 6), A(2), U(0, 0), U(1, 100)>>}}

\* witness sets: { 0: vkey witnesses, 1: native scripts, 4: plutus data, .. }
BlockWitnessSets ==
    {<<M(0)>>,
     <<M(1), U(0, 0), A(1), A(2), B(H1), B(H2)>>,
     <<M(1), U(0, 1), A(1), A(2), U(0, 0), B(H1)>>,
     <<M(1), U(0, 1), A(1), A(3), U(0, 3), U(0, 1), A(1), A(2), U(0, 0), B(H1)>>,
     <<M(1), U(0, 4), A(2), U(0, 5), B(H1)>>,
     <<M(1), U(0, 5), A(1), A(4), U(0, 0), U(0, 0), B(H1), A(2), U(0, 1), U(0, 2)>>}

BlockAuxSets ==
    {<<M(0)>>, <<M(1), U(0, 0), M(1), U(0, 1), Txt(<<97>>)>>,
     <<M(1), U(0, 0), G(AlonzoAuxTag), M(1), U(0, 0), M(0)>>,
     <<M(2), U(0, 1), M(0), U(0, 0), M(1), U(0, 1), Txt(<<97>>)>>}

BlockWrapperInputs ==
    {Input("BlockWrapper",
           <<A(2), U(0, 5), A(5)>> \o HeaderWire \o <<A(1)>> \o b \o <<A(1)>> \o w \o x
             \o <<A(0)>>, TRUE) :
        b \in BlockBodies, w \in BlockWitnessSets, x \in BlockAuxSets}
    \cup {Input("BlockWrapper", <<A(2), U(0, 5), A(5)>> \o HeaderWire, FALSE)}

\* the payload sequences of script data: definite or indefinite arrays
PayloadWires ==
    {<<A(0)>>, <<AI, BRK>>, <<A(1), U(0, 1)>>, <<A(2), B(H1), U(0, 1)>>,
     <<AI, U(0, 1), BRK>>, <<AI, U(0, 1), B(H2), BRK>>, <<A(1), G(121), A(0)>>}

\* the ends of the two ranges of compact constructor tags, and tags that
\* are no constructor tags
CompactTags == {121, 127, 1280, 1400}
OtherTags == {24, 30, 101, 103, 120, 128, 1279, 1401}

\* #6.121([..]) .. and #6.102([index, [..]])
ConstrWires ==
    {<<G(g)>> \o v : g \in CompactTags, v \in PayloadWires}
    \cup {<<G(GeneralConstrTag), A(2), U(0, i)>> \o v : i \in {0, 7}, v \in PayloadWires}

ConstrInputs ==
    {Input("Constr", x, TRUE) : x \in ConstrWires}
    \cup {Input("Constr", <<G(g)>> \o v, FALSE) :
            g \in OtherTags \cup {PosBignum, NegBignum}, v \in {<<A(0)>>, <<B(H1)>>}}
    \cup {Input("Constr", x, FALSE) :
            x \in {<<A(0)>>, <<U(1, 121)>>, <<G(GeneralConstrTag), U(0, 1), A(0)>>, <<>>}}

IndefVecInputs ==
    {Input("IndefVec", x, TRUE) : x \in PayloadWires}
    \cup {Input("IndefVec", x, FALSE) : x \in {<<U(0, 1)>>, <<M(0)>>, <<AI, U(0, 1)>>, <<>>}}

\* script-data maps: keys in and out of order, and repeated
PlutusMapWires ==
    {<<M(0)>>, <<M(1), U(0, 1), B(H1)>>,
     <<M(2), U(0, 1), B(H1), U(0, 2), B(H2)>>,
     <<M(2), U(0, 2), B(H2), U(0, 1), B(H1)>>,
     <<M(2), U(0, 1), B(H1), U(0, 1), B(H2)>>,
     <<M(3), U(0, 3), A(0), U(0, 1), B(H1), U(0, 2), U(0, 0)>>,
     <<M(3), U(0, 2), B(H1), U(0, 1), B(H2), U(0, 2), B(H2)>>}

PlutusDataInputs ==
    {Input("PlutusData", x, TRUE) : x \in ConstrWires \cup PlutusMapWires \cup PayloadWires}
    \cup {Input("PlutusData", <<k>>, TRUE) : k \in UintToks \cup NintToks}
    \cup {Input("PlutusData", <<G(g), B(h)>>, TRUE) :
            g \in {PosBignum, NegBignum}, h \in {H1, <<1, 0, 0, 0, 0, 0, 0, 0, 0>>}}
    \cup {Input("PlutusData", <<B(h)>>, TRUE) : h \in {<<>>, H1}}
    \cup {Input("PlutusData", <<G(g)>> \o v, FALSE) :
            g \in OtherTags, v \in {<<A(0)>>, <<B(H1)>>}}
    \cup {Input("PlutusData", x, FALSE) :
            x \in {<<MI, BRK>>, <<MI, U(0, 1), B(H1), BRK>>, <<Txt(<<97>>)>>, <<NUL>>, <<>>}}

\* #6.30([numerator, denominator]) and the same under other tags
RationalNumberInputs ==
    {Input("RationalNumber", <<G(g), A(2), n, d>>, TRUE) :
        g \in {RationalTag, 4, 5, 24},
        n \in {U(0, 1), U(1, 5), NL(0, L(0)), UL(8, U63Max), NL(8, U63Max)},
        d \in {U(0, 2), U(2, 1000), UL(8, U64Max)}}
    \cup {Input("RationalNumber", x, FALSE) :
            x \in {<<G(RationalTag), A(2), UL(8, U63Next), U(0, 2)>>,
                   <<G(RationalTag), A(2), U(0, 1), NL(0, L(0))>>,
                   <<A(2), U(0, 1), U(0, 2)>>, <<G(RationalTag), U(0, 1), U(0, 2)>>, <<>>}}

MetadatumInputs ==
    {Input("Metadatum", <<k>>, TRUE) : k \in UintToks \cup NintToks}
    \cup {Input("Metadatum", x, TRUE) :
            x \in {<<B(H1)>>, <<Txt(<<97>>)>>, <<A(0)>>, <<A(2), U(0, 1), UL(8, U64Max)>>,
                   <<M(1), U(0, 1), Txt(<<97>>)>>, <<M(2), U(0, 2), B(H1), U(0, 1), A(0)>>}}
    \cup {Input("Metadatum", x, FALSE) :
            x \in {<<NUL>>, <<G(PosBignum), B(H1)>>, <<AI, BRK>>, <<MI, BRK>>, <<>>}}

Inputs ==
    SkipCborInputs \cup ConstrInputs \cup IndefVecInputs \cup PlutusDataInputs
    \cup RationalNumberInputs \cup MetadatumInputs \cup ValueInputs \cup BigIntInputs \cup InstantaneousRewardSourceInputs
    \cup StakeCredentialInputs \cup RelayInputs \cup NativeScriptInputs
    \cup CertificateInputs \cup AuxiliaryDataInputs \cup TransactionBodyInputs
    \cup BlockWrapperInputs

(***************************************************************************)
(* The state machine: a caller hands a byte sequence to one codec's        *)
(* decode, hands what came back to encode, and may decode the bytes it     *)
(* got once more.                                                          *)
(*   typ    the type whose codec is called                                 *)
(*   wire   the input tokens; given: what the builder of the input knows   *)
(*          (is it a valid instance, where the item ends, the map's keys)  *)
(*   pc     "wire" -> "value" | "error";  "value" -> "out" | "panic"       *)
(*   val, pos, err   decode's result, decoder position and error           *)
(*   out    encode's output; orig: the value that was encoded, after a     *)
(*          reload                                                         *)
(***************************************************************************)
Init ==
    \E i \in Inputs, rest \in Siblings :
        /\ typ = i.typ
        /\ wire = i.item \o rest
        /\ given = [valid |-> i.valid, len |-> Len(i.item), keys |-> i.keys]
        /\ pc = "wire"
        /\ val = <<>>
        /\ pos = 0
        /\ err = ""
        /\ out = <<>>
        /\ orig = <<>>
        /\ round = 0

DecodeStep(ty) ==
    /\ pc = "wire"
    /\ \E r \in {Decode(ty, wire, 1)} :
          /\ pc' = IF r.ok THEN "value" ELSE "error"
          /\ val' = r.v
          /\ pos' = r.pos
          /\ err' = r.err
    /\ UNCHANGED <<typ, wire, given, out, orig, round>>

EncodeStep(ty) ==
    /\ pc = "value"
    /\ \E e \in {Encode(ty, val)} :
          /\ pc' = IF HasPanic(e) THEN "panic" ELSE "out"
          /\ out' = IF HasPanic(e) THEN <<>> ELSE e
    /\ UNCHANGED <<typ, wire, given, val, pos, err, orig, round>>

DecodeSkipCbor ==
    /\ typ = "SkipCbor"
    /\ DecodeStep(T("SkipCbor"))
EncodeSkipCbor ==
    /\ typ = "SkipCbor"
    /\ EncodeStep(T("SkipCbor"))
DecodeValue ==
    /\ typ = "Value"
    /\ DecodeStep(T("Value"))
EncodeValue ==
    /\ typ = "Value"
    /\ EncodeStep(T("Value"))
DecodeBigInt ==
    /\ typ = "BigInt"
    /\ DecodeStep(T("BigInt"))
EncodeBigInt ==
    /\ typ = "BigInt"
    /\ EncodeStep(T("BigInt"))
DecodeInstantaneousRewardSource ==
    /\ typ = "InstantaneousRewardSource"
    /\ DecodeStep(T("InstantaneousRewardSource"))
EncodeInstantaneousRewardSource ==
    /\ typ = "InstantaneousRewardSource"
    /\ EncodeStep(T("InstantaneousRewardSource"))
DecodeStakeCredential ==
    /\ typ = "StakeCredential"
    /\ DecodeStep(T("StakeCredential"))
EncodeStakeCredential ==
    /\ typ = "StakeCredential"
    /\ EncodeStep(T("StakeCredential"))
DecodeRelay ==
    /\ typ = "Relay"
    /\ DecodeStep(T("Relay"))
EncodeRelay ==
    /\ typ = "Relay"
    /\ EncodeStep(T("Relay"))
DecodeNativeScript ==
    /\ typ = "NativeScript"
    /\ DecodeStep(T("NativeScript"))
EncodeNativeScript ==
    /\ typ = "NativeScript"
    /\ EncodeStep(T("NativeScript"))
DecodeCertificate ==
    /\ typ = "Certificate"
    /\ DecodeStep(T("Certificate"))
EncodeCertificate ==
    /\ typ = "Certificate"
    /\ EncodeStep(T("Certificate"))
DecodeAuxiliaryData ==
    /\ typ = "AuxiliaryData"
    /\ DecodeStep(T("AuxiliaryData"))
EncodeAuxiliaryData ==
    /\ typ = "AuxiliaryData"
    /\ EncodeStep(T("AuxiliaryData"))
DecodeTransactionBody ==
    /\ typ = "TransactionBody"
    /\ DecodeStep(T("TransactionBody"))
EncodeTransactionBody ==
    /\ typ = "TransactionBody"
    /\ EncodeStep(T("TransactionBody"))
DecodeBlockWrapper ==
    /\ typ = "BlockWrapper"
    /\ DecodeStep(T("BlockWrapper"))
EncodeBlockWrapper ==
    /\ typ = "BlockWrapper"
    /\ EncodeStep(T("BlockWrapper"))
DecodePlutusData ==
    /\ typ = "PlutusData"
    /\ DecodeStep(T("PlutusData"))
EncodePlutusData ==
    /\ typ = "PlutusData"
    /\ EncodeStep(T("PlutusData"))
DecodeConstr ==
    /\ typ = "Constr"
    /\ DecodeStep(<<"Constr", T("PlutusData")>>)
EncodeConstr ==
    /\ typ = "Constr"
    /\ EncodeStep(<<"Constr", T("PlutusData")>>)
DecodeIndefVec ==
    /\ typ = "IndefVec"
    /\ DecodeStep(<<"IndefVec", T("PlutusData")>>)
EncodeIndefVec ==
    /\ typ = "IndefVec"
    /\ EncodeStep(<<"IndefVec", T("PlutusData")>>)
DecodeRationalNumber ==
    /\ typ = "RationalNumber"
    /\ DecodeStep(T("RationalNumber"))
EncodeRationalNumber ==
    /\ typ = "RationalNumber"
    /\ EncodeStep(T("RationalNumber"))
DecodeMetadatum ==
    /\ typ = "Metadatum"
    /\ DecodeStep(T("Metadatum"))
EncodeMetadatum ==
    /\ typ = "Metadatum"
    /\ EncodeStep(T("Metadatum"))

\* the encoder's bytes are decoded again
Reload ==
    /\ pc = "out"
    /\ round < MaxRounds
    /\ wire' = out
    /\ given' = [valid |-> given.valid, len |-> Len(out), keys |-> <<>>]
    /\ orig' = val
    /\ round' = round + 1
    /\ pc' = "wire"
    /\ val' = <<>>
    /\ pos' = 0
    /\ err' = ""
    /\ out' = <<>>
    /\ UNCHANGED typ

Next ==
    \/ DecodeSkipCbor \/ EncodeSkipCbor
    \/ DecodeValue \/ EncodeValue
    \/ DecodeBigInt \/ EncodeBigInt
    \/ DecodeInstantaneousRewardSource \/ EncodeInstantaneousRewardSource
    \/ DecodeStakeCredential \/ EncodeStakeCredential
    \/ DecodeRelay \/ EncodeRelay
    \/ DecodeNativeScript \/ EncodeNativeScript
    \/ DecodeCertificate \/ EncodeCertificate
    \/ DecodeAuxiliaryData \/ EncodeAuxiliaryData
    \/ DecodeTransactionBody \/ EncodeTransactionBody
    \/ DecodeBlockWrapper \/ EncodeBlockWrapper
    \/ DecodePlutusData \/ EncodePlutusData
    \/ DecodeConstr \/ EncodeConstr
    \/ DecodeIndefVec \/ EncodeIndefVec
    \/ DecodeRationalNumber \/ EncodeRationalNumber
    \/ DecodeMetadatum \/ EncodeMetadatum
    \/ Reload

Spec == Init /\ [][Next]_vars

(***************************************************************************)
(* Properties                                                              *)
(***************************************************************************)
\* the item under test, as it was on the wire
Item == SubSeq(wire, 1, given.len)

Decoded == pc \in {"value", "out", "panic"}
Finished == pc # "wire"
First == round = 0

\* the number of complete items from position p to the end of t
RECURSIVE CountItems(_, _)
CountItems(t, p) ==
    IF p = 0 \/ p > Len(t) THEN 0 ELSE 1 + CountItems(t, SkipItem(t, p))

\* the keys of the pairs of a map whose first key is at position p
RECURSIVE MapKeys(_, _)
MapKeys(t, p) ==
    IF p = 0 \/ p > Len(t) \/ t[p].m # "uint" THEN <<>>
    ELSE <<ToNat(t[p].a)>> \o MapKeys(t, SkipItem(t, p + 1))

HasIndefArray(t) == \E i \in 1..Len(t) : t[i].m = "arrayindef"

\* C1: every valid block without indefinite arrays decodes, and encoding
\* the decoded block gives back the same bytes.
C1_BlockRoundTrip ==
    (typ = "BlockWrapper" /\ First /\ given.valid /\ ~HasIndefArray(wire) /\ Finished)
        => /\ pc \notin {"error", "panic"}
           /\ pc = "out" => out = Item

TaggedTypes ==
    {"StakeCredential", "Certificate", "NativeScript", "Relay",
     "InstantaneousRewardSource"}

DeclaredVariants(ty) ==
    CASE ty = "StakeCredential" -> <<"AddrKeyhash", "Scripthash">>
      [] ty = "Certificate" ->
            <<"StakeRegistration", "StakeDeregistration", "StakeDelegation",
              "PoolRegistration", "PoolRetirement", "GenesisKeyDelegation",
              "MoveInstantaneousRewardsCert">>
      [] ty = "NativeScript" ->
            <<"ScriptPubkey", "ScriptAll", "ScriptAny", "ScriptNOfK", "InvalidBefore",
              "InvalidHereafter">>
      [] ty = "Relay" -> <<"SingleHostAddr", "SingleHostName", "MultiHostName">>
      [] ty = "InstantaneousRewardSource" -> <<"Reserves", "Treasury">>

NamedError(ty) ==
    CASE ty = "StakeCredential" -> "invalid variant id for StakeCredential"
      [] ty = "Certificate" -> "unknown variant id for certificate"
      [] ty = "NativeScript" -> "unknown variant id for native script"
      [] ty = "Relay" -> "invalid variant id for Relay"
      [] ty = "InstantaneousRewardSource" -> "invalid funds variant"

\* the discriminant of the item on the wire, -1 when it has none
Discriminant ==
    LET i == IF typ = "InstantaneousRewardSource" THEN 1 ELSE 2 IN
    IF Len(wire) >= i /\ wire[i].m = "uint" /\ (i = 1 \/ wire[1].m = "array")
    THEN ToNat(wire[i].a) ELSE -1

C5_VariantFraming ==
    (typ \in {"StakeCredential", "Certificate", "NativeScript", "Relay"}
     /\ First /\ pc = "out")
        => /\ out[1].m = "array"
           /\ ToNat(out[1].a) = CountItems(out, 2)

\* C6: decoding what encode wrote gives back the variant that was encoded,
\* with its fields.
C6_DiscriminantSymmetry ==
    (typ \in TaggedTypes /\ round = 1 /\ Finished)
        => Decoded /\ val = orig

\* C7: a native integer up to 2^64-1 decodes as BigInt::Int and is written
\* back as the same native integer; tag 2 / tag 3 with a byte string decode
\* as BigUInt / BigNInt and are written back with the same tag and bytes.
C7_BignumBoundary ==
    (typ = "BigInt" /\ First /\ Finished /\ Len(wire) >= 1)
        => /\ wire[1].m = "uint" =>
                /\ Decoded /\ val.k = "Int"
                /\ pc = "out" => (Len(out) = 1 /\ out[1].m = "uint" /\ out[1].a = wire[1].a)
           /\ (wire[1].m = "tag" /\ given.valid) =>
                /\ Decoded
                /\ val.k = (IF wire[1].a = L(PosBignum) THEN "BigUInt" ELSE "BigNInt")
                /\ pc = "out" => out = Item

\* C8: an auxiliary-data value is told apart by the type of its first item:
\* a map is Shelley, an array ShelleyMa, a tag (consumed, whatever its
\* number) Alonzo, anything else an error; encode writes tag 259 before an
\* Alonzo record.
C8_AuxiliaryDataDisambiguation ==
    (typ = "AuxiliaryData" /\ First /\ Finished)
        => /\ given.valid => (Decoded /\ pos = given.len + 1)
           /\ Decoded =>
                /\ wire[1].m \in {"map", "array", "tag"}
                /\ val.k = (CASE wire[1].m = "map" -> "Shelley"
                              [] wire[1].m = "array" -> "ShelleyMa"
                              [] wire[1].m = "tag" -> "Alonzo")
           /\ (Len(wire) >= 1 /\ wire[1].m \notin {"map", "array", "tag"}) =>
                pc = "error" /\ err = "Can't infer variant from data type for AuxiliaryData"
           /\ (pc = "out" /\ val.k = "Alonzo") => out[1] = G(259)

C8_Witness ==
    /\ typ = "AuxiliaryData" /\ First /\ pc = "out"
    /\ wire[1] = G(24)
    /\ val.k = "Alonzo"
    /\ out[1] = G(259)

\* C9: SkipCbor decode succeeds on every well-formed value and leaves the
\* decoder right after that value, whatever it contains, so that what
\* follows is read from the right place: a genesis key delegation gets its
\* third field from the byte string after the two skipped values.
C9_SkipConsumesOneValue ==
    /\ (typ = "SkipCbor" /\ First /\ Finished)
            => pc \in {"value", "panic"} /\ pos = given.len + 1
    /\ (typ = "Certificate" /\ First /\ Finished /\ given.valid /\ Discriminant = 5)
            => /\ Decoded /\ pos = given.len + 1
               /\ val.k = "GenesisKeyDelegation"
               /\ val.f[3] = wire[given.len].p

C9_Witness ==
    /\ typ = "SkipCbor" /\ First /\ pc = "value"
    /\ wire[1].m = "mapindef"
    /\ given.len > 2
    /\ Len(wire) > given.len
    /\ pos = given.len + 1

\* C10: Value decode takes an unsigned integer of any header width (8, 16,
\* 32 or 64 bits, or in the initial byte) as Coin of that amount, and an
\* array as Multiasset.
C10_ValueIntegerWidths ==
    (typ = "Value" /\ First /\ Finished /\ Len(wire) >= 1)
        => /\ wire[1].m = "uint" => (Decoded /\ val = Variant("Coin", <<wire[1].a>>))
           /\ (wire[1].m = "array" /\ given.valid) => (Decoded /\ val.k = "Multiasset")

\* C11: a Value with no assets, Multiasset(coin, empty mapping) included, is
\* written as the bare coin integer, not as the 2-element array.
C11_PlainCoinWhenNoAssets ==
    (typ = "Value" /\ First /\ pc = "out" /\ (val.k = "Coin" \/ val.f[2] = <<>>))
        => Len(out) = 1 /\ out[1].m = "uint" /\ out[1].a = val.f[1]

\* C12: BigInt decode yields BigUInt exactly for tag 2 and BigNInt exactly
\* for tag 3, whatever the size of the byte string; any other tag is the
\* error "invalid cbor tag for big int", any type that is neither an integer
\* nor a tag is an error; encode writes tag 2 / tag 3 before the bytes.
C12_BigIntByTagOnly ==
    (typ = "BigInt" /\ First /\ Finished /\ Len(wire) >= 1)
        => LET tagged(g) == wire[1].m = "tag" /\ wire[1].a = L(g) IN
           /\ (Decoded /\ val.k = "BigUInt") => tagged(2)
           /\ (Decoded /\ val.k = "BigNInt") => tagged(3)
           /\ ((tagged(2) \/ tagged(3)) /\ Len(wire) >= 2 /\ wire[2].m = "bytes") =>
                /\ Decoded
                /\ val = Variant(IF tagged(2) THEN "BigUInt" ELSE "BigNInt", <<wire[2].p>>)
                /\ pc = "out" =>
                     /\ Len(out) = 2
                     /\ out[1] = G(IF val.k = "BigUInt" THEN 2 ELSE 3)
                     /\ out[2] = B(val.f[1])
           /\ (wire[1].m = "tag" /\ ~tagged(2) /\ ~tagged(3)) =>
                pc = "error" /\ err = "invalid cbor tag for big int"
           /\ wire[1].m \notin {"uint", "nint", "tag"} =>
                pc = "error" /\ err = "invalid cbor data type for big int"

C12_Witness ==
    /\ typ = "BigInt" /\ First /\ pc = "out"
    /\ wire[1] = G(3) /\ wire[2] = B(H1)
    /\ val = Variant("BigNInt", <<H1>>)
    /\ out = <<G(3), B(H1)>>

\* whether a decoded value holds a SkipCbor value that encode will reach
BodyReachesSkip(b) ==
    \E i \in 1..Len(b) :
        \/ b[i].k = "Update" /\ b[i].f[1] # <<>>
        \/ /\ b[i].k = "Certificates" /\ b[i].f[1] # <<>>
           /\ \E j \in 1..Len(b[i].f[1][1]) : b[i].f[1][1][j].k = "GenesisKeyDelegation"

AuxReachesSkip(a) == a.k = "ShelleyMa" /\ a.f[2] # <<>>

BlockReachesSkip(v) ==
    \/ \E i \in 1..Len(v[2][2]) : BodyReachesSkip(v[2][2][i])
    \/ \E i \in 1..Len(v[2][4]) : AuxReachesSkip(v[2][4][i][2])

ReachesSkip ==
    CASE typ = "SkipCbor" -> TRUE
      [] typ = "Certificate" -> val.k = "GenesisKeyDelegation"
      [] typ = "TransactionBody" -> BodyReachesSkip(val)
      [] typ = "AuxiliaryData" -> AuxReachesSkip(val)
      [] typ = "BlockWrapper" -> BlockReachesSkip(val)

\* C13: encoding a value that holds a SkipCbor value (a genesis key
\* delegation, Update(Some), ShelleyMa with auxiliary scripts) stops the
\* program: no bytes, no encode error; encoding a value that holds none
\* returns bytes.
C13_SkipEncodeIsFatal ==
    (/\ typ \in {"SkipCbor", "Certificate", "TransactionBody", "AuxiliaryData",
                 "BlockWrapper"}
     /\ First /\ pc \in {"out", "panic"})
        => /\ pc = "panic" <=> ReachesSkip
           /\ pc = "panic" => out = <<>>
           /\ pc = "out" => out # <<>>

C13_Witness ==
    /\ typ = "TransactionBody" /\ First /\ pc = "panic"
    /\ given.keys = <<2, 6>>
    /\ val[2].k = "Update" /\ val[2].f[1] # <<>>
    /\ out = <<>>

\* the constructor tags of script data
ConstrTagNumbers == (121..127) \cup (1280..1400) \cup {102}

\* C14: PlutusData decode goes by the type of the first item, which it
\* leaves in place for the decoder it hands over to: a constructor tag
\* gives Constr (holding that tag), tag 2 or 3 gives BigInt, any other tag
\* is an error; a native integer gives BigInt, a map Map, a byte string
\* BoundedBytes, a definite array Array, an indefinite array ArrayIndef;
\* any other type is an error.
C14_PlutusDataDispatch ==
    (typ = "PlutusData" /\ First /\ Finished /\ Len(wire) >= 1)
        => LET h == wire[1]
               tag == IF h.m = "tag" THEN ToNat(h.a) ELSE -1
               is(k) == Decoded /\ val.k = k
           IN /\ (tag \in ConstrTagNumbers /\ given.valid) =>
                    is("Constr") /\ val.f[1][1] = h.a
              /\ (tag \in {2, 3} /\ given.valid) =>
                    /\ is("BigInt")
                    /\ val.f[1].k = (IF tag = 2 THEN "BigUInt" ELSE "BigNInt")
              /\ (h.m = "tag" /\ tag \notin ConstrTagNumbers \cup {2, 3}) =>
                    pc = "error" /\ err = "unknown tag for plutus data tag"
              /\ h.m \in {"uint", "nint"} => is("BigInt") /\ val.f[1].k = "Int"
              /\ (h.m = "map" /\ given.valid) => is("Map")
              /\ h.m = "bytes" => is("BoundedBytes") /\ val.f[1] = h.p
              /\ (h.m = "array" /\ given.valid) => is("Array")
              /\ (h.m = "arrayindef" /\ given.valid) => is("ArrayIndef")
              /\ h.m \notin {"tag", "uint", "nint", "map", "bytes", "array", "arrayindef"} =>
                    pc = "error" /\ err = "bad cbor data type for plutus data"

\* the number of items up to the break of an indefinite array
RECURSIVE CountToBreak(_, _)
CountToBreak(t, p) ==
    IF p = 0 \/ p > Len(t) \/ t[p].m = "break" THEN 0
    ELSE 1 + CountToBreak(t, SkipItem(t, p))

\* the number of elements of the array whose header is at position p
ElemCount(t, p) ==
    IF t[p].m = "array" THEN ToNat(t[p].a) ELSE CountToBreak(t, p + 1)

C17_RationalNumberTag ==
    typ = "RationalNumber"
        => /\ (First /\ Finished /\ given.valid) =>
                /\ Decoded /\ pos = given.len + 1
                /\ val = <<I64(wire[3].m = "nint", wire[3].a), wire[4].a>>
           /\ pc = "out" =>
                /\ Len(out) = 4
                /\ out[1] = G(30) /\ out[2] = A(2)
                /\ out[3].m = (IF val[1].neg THEN "nint" ELSE "uint") /\ out[3].a = val[1].n
                /\ out[4].m = "uint" /\ out[4].a = val[2]
           /\ (round = 1 /\ Finished) => Decoded /\ val = orig
           /\ (First /\ pc = "out" /\ out = Item) => wire[1].a = L(30)

C17_Witness ==
    /\ typ = "RationalNumber" /\ First /\ pc = "out"
    /\ wire[1] = G(4)
    /\ val[1] = I64(TRUE, L(0))
    /\ out[1] = G(30)
    /\ out # Item

\* where the map held in a BTreeMap starts in the item under test: a
\* script-data map, the withdrawals of a body that has nothing else, the
\* stake-credential target of a MIR certificate, the auxiliary data set of
\* a block with one empty body and one empty witness set; 0 when none
SortedMapAt ==
    CASE typ = "PlutusData" /\ Len(wire) >= 1 /\ wire[1].m = "map" -> 1
      [] typ = "TransactionBody" /\ given.keys = <<5>> /\ wire[1].m = "map" -> 3
      [] typ = "Certificate" /\ Discriminant = 6 /\ Len(wire) >= 5 /\ wire[5].m = "map" -> 5
      [] typ = "BlockWrapper" /\ given.valid ->
            LET b == SkipItem(wire, 4) IN
            IF SubSeq(wire, b, b + 3) = <<A(1), M(0), A(1), M(0)>> THEN b + 4 ELSE 0
      [] OTHER -> 0

\* a key as a tuple of numbers: an integer by its value, a byte string by
\* its bytes, a stake credential by its discriminant and its hash
FlatKey(k) ==
    CASE k[1].m = "uint" -> k[1].a
      [] k[1].m = "bytes" -> k[1].p
      [] k[1].m = "array" -> <<ToNat(k[2].a)>> \o k[3].p

\* the keys of n pairs, the first at position q
RECURSIVE KeysFrom(_, _, _)
KeysFrom(t, q, n) ==
    IF n = 0 \/ q = 0 \/ q > Len(t) THEN <<>>
    ELSE <<FlatKey(SubSeq(t, q, SkipItem(t, q) - 1))>>
         \o KeysFrom(t, SkipItem(t, SkipItem(t, q)), n - 1)

KeysOfMap(t, p) == KeysFrom(t, p + 1, ToNat(t[p].a))

StrictlyAscending(ks) == \A i \in 1..(Len(ks) - 1) : LexLess(ks[i], ks[i + 1])

\* C18: a map held in a BTreeMap is written back with its keys strictly
\* ascending (so no key twice) and with the keys that were on the wire; the
\* bytes come back unchanged only when the keys on the wire were strictly
\* ascending already.
C18_SortedMapReencoding ==
    (First /\ pc = "out" /\ SortedMapAt > 0)
        => LET was == KeysOfMap(wire, SortedMapAt)
               now == KeysOfMap(out, SortedMapAt)
           IN /\ out[SortedMapAt].m = "map"
              /\ StrictlyAscending(now)
              /\ {now[i] : i \in 1..Len(now)} = {was[i] : i \in 1..Len(was)}
              /\ out = Item => StrictlyAscending(was)

\* the number of key/value pairs of the map at position 1
PairCount(t) ==
    IF t[1].m = "map" THEN ToNat(t[1].a) ELSE CountToBreak(t, 2) \div 2

\* C19: after a successful TransactionBody decode the body holds as many
\* components as the wire map has pairs and the decoder stands right after
\* the map, for a map with a declared pair count and for an
\* indefinite-length map alike.
C19_BodyConsumesWholeMap ==
    (typ = "TransactionBody" /\ First /\ Decoded)
        => /\ Len(val) = PairCount(wire)
           /\ pos = given.len + 1


\* the wire item of a Metadatum input is a single CBOR integer
WireInteger == typ = "Metadatum" /\ First /\ Len(wire) > 0 /\ wire[1].m \in {"uint", "nint"}

\* C20: every integer Metadatum decode accepts, unsigned values above
\* 2^63-1 included, is held with the sign and magnitude it has on the wire,
\* and re-encoding writes that same integer.
C20_MetadatumIntegerFidelity ==
    /\ (WireInteger /\ Decoded)
           => /\ val.k = "Int"
              /\ val.f[1] = I64(wire[1].m = "nint", wire[1].a)
    /\ (WireInteger /\ pc = "out")
           => /\ Len(out) = 1
              /\ out[1].m = wire[1].m
              /\ out[1].a = wire[1].a

====
